---- MODULE Spec2Model ----
(***************************************************************************)
(* ShowGo settings store, media catalog and change-timestamp tracker       *)
(* (src/showgo/utils.py, src/showgo/config_bp.py, src/showgo/models.py,    *)
(* src/showgo/config.py) as a state machine.                               *)
(*                                                                         *)
(* Modelling conventions                                                   *)
(*  - A JSON value is a record [kind, n]: kind is "num", "bool", "str" or  *)
(*    "none"; n is the number, 1/0 for True/False, or the index of a       *)
(*    string.                                                              *)
(*  - The wall clock is the counter clock; every reading of                *)
(*    datetime.now() returns a value one greater than the reading before.  *)
(*    One flush (commit) takes one reading for all the rows it writes.     *)
(*  - last_updated is stored without a zone (a DateTime column) and read   *)
(*    back naive; datetime.timestamp() of it takes it for local time, so   *)
(*    the server's zone (tz) is part of the state.  Spec and SpecMedia run *)
(*    a server on UTC, SpecPoll a server on any zone of Zones.             *)
(*  - A statement on a missing table raises the error class the database   *)
(*    driver gives it: OperationalError ("no such table") with SQLite, the *)
(*    database Config names; ProgrammingError with PostgreSQL or MySQL,    *)
(*    which a config_class passed to create_app may name.  The driver is   *)
(*    part of the state.  Any statement may also raise OperationalError    *)
(*    for another reason; where that happens is an input of every handler  *)
(*    (a fault record).  A handler is one atomic action.                   *)
(***************************************************************************)
EXTENDS Integers, Sequences, FiniteSets, TLC

\* ---------------------------------------------------------------- bounds
\* Largest clock reading; actions that would read the clock past it are disabled.
MaxClock == 5
\* How many times a schema-missing failure may be raised again after a
\* successful bootstrap within one invocation.
MaxRecovery == 2

\* ---------------------------------------------------------------- values
Num(n) == [kind |-> "num", n |-> n]
Bool(b) == [kind |-> "bool", n |-> IF b THEN 1 ELSE 0]
Str(i) == [kind |-> "str", n |-> i]
NoneV == [kind |-> "none", n |-> 0]

\* Python's x == y on JSON scalars, which is what the JSON column type's
\* compare_values uses to decide whether an attribute has a net change.
PyEq(a, b) ==
    /\ a.n = b.n
    /\ \/ a.kind = b.kind
       \/ {a.kind, b.kind} \subseteq {"num", "bool"}

\* werkzeug's generate_password_hash(password): a salted hash, another string at
\* every call (salt: the reading it is computed at), and check_password_hash.
DefaultPassword == "showgo"
generate_password_hash(password, salt) == [kind |-> "pbkdf2:" \o password, n |-> salt]
check_password_hash(pwhash, password) == pwhash.kind = "pbkdf2:" \o password

\* ---------------------------------------------------------------- keys
DeprecatedKey == "widgets_weather_api_key"
DefaultKeys ==
    {"slideshow_duration_seconds", "overlay_enabled", "media_last_changed",
     "auth_password_hash", "auth_password_changed"}
Keys == DefaultKeys \cup {DeprecatedKey, "max_resolution"}

VARIABLES
    schema,     \* TRUE when the tables (settings, media_files) exist
    settings,   \* the settings table: key -> [value, last_updated]
    media,      \* the media_files table: a set of MediaFile rows
    uploads,    \* names of the files in UPLOAD_FOLDER
    thumbs,     \* names of the files in THUMBNAIL_FOLDER
    around,     \* the two folders themselves and the files and directories beside them
    calls,      \* the call each worker process is in the middle of
    nextUuid,   \* the next value uuid.uuid4() returns (never one it returned before)
    clock,      \* the last reading of the wall clock
    importTs,   \* the reading at which this process imported showgo.config
    tz,         \* the server's local time zone
    driver,     \* the database driver behind SQLALCHEMY_DATABASE_URI
    polled,     \* the timestamp the polling viewer received last (NoneV: none yet)
    last        \* what the last handler was given, saw and returned

vars == <<schema, settings, media, uploads, thumbs, around, calls, nextUuid, clock,
          importTs, tz, driver, polled, last>>

\* DEFAULT_SETTINGS_DB of the process that imported config.py at reading ts.
DEFAULT_SETTINGS_DB(ts) ==
    [k \in DefaultKeys |->
        CASE k = "slideshow_duration_seconds" -> Num(10)
          [] k = "overlay_enabled" -> Bool(FALSE)
          [] k = "media_last_changed" -> Num(ts)
          [] k = "auth_password_hash" -> generate_password_hash(DefaultPassword, ts)
          [] k = "auth_password_changed" -> Bool(FALSE)]

\* The database as the handlers thread it: tables, rows and the clock.
Db == [schema |-> schema, settings |-> settings, media |-> media, clock |-> clock,
       tz |-> tz, driver |-> driver]

EmptyRows == [k \in {} |-> NoneV]

\* ---------------------------------------------------------------- rows
Row(v, t) == [value |-> v, last_updated |-> t]

HasRow(s, k) == k \in DOMAIN s

\* Rows of s with key k written as value v at reading t (INSERT or UPDATE).
PutRow(s, k, v, t) == [x \in DOMAIN s \cup {k} |-> IF x = k THEN Row(v, t) ELSE s[x]]

DelRow(s, k) == [x \in DOMAIN s \ {k} |-> s[x]]

Max(a, b) == IF a >= b THEN a ELSE b

\* ---------------------------------------------------------------- faults
\* What the persistence layer does to one invocation of a handler:
\*   down1  the first statement raises OperationalError
\*   boot   how initialize_database ends when it is called
\*   again  after this many successful bootstraps the tables are missing again
\*          when the handler retries (they were dropped in between)
\*   down2  the retry after the last bootstrap raises OperationalError
\*   gsDown the nested get_setting of get_config_timestamp_from_db raises
\*          OperationalError
BootOutcomes == {"ok", "create_fail", "commit_fail"}

\* The error class a statement on a missing table raises.
Drivers == {"sqlite", "postgresql"}
MissingTableError(drv) == IF drv = "sqlite" THEN "OperationalError" ELSE "ProgrammingError"

\* The first statement of a handler raises an error that is not ProgrammingError.
Operational(d, f) ==
    f.down1 \/ (~d.schema /\ MissingTableError(d.driver) # "ProgrammingError")

NoFault == [down1 |-> FALSE, boot |-> "ok", again |-> 0, down2 |-> FALSE, gsDown |-> FALSE]

\* The fault records that differ in effect for a handler that retries once
\* (get_setting, save_setting, load_settings_from_db, get_database_media).
Faults(d) ==
    IF d.schema
    THEN {NoFault, [NoFault EXCEPT !.down1 = TRUE]}
    ELSE IF MissingTableError(d.driver) # "ProgrammingError"
    THEN {NoFault}
    ELSE {[NoFault EXCEPT !.down1 = TRUE]}
         \cup {[NoFault EXCEPT !.boot = b] : b \in BootOutcomes}
         \cup {[NoFault EXCEPT !.again = 1], [NoFault EXCEPT !.down2 = TRUE]}

\* The fault records that differ in effect for get_config_timestamp_from_db.
TsFaults(d) ==
    IF d.schema
    THEN {NoFault, [NoFault EXCEPT !.down1 = TRUE], [NoFault EXCEPT !.gsDown = TRUE]}
    ELSE IF MissingTableError(d.driver) # "ProgrammingError"
    THEN {NoFault}
    ELSE {[NoFault EXCEPT !.down1 = TRUE]}
         \cup {[NoFault EXCEPT !.again = a, !.boot = b] :
                  a \in 0..MaxRecovery, b \in BootOutcomes}
         \cup {[NoFault EXCEPT !.again = a, !.down2 = TRUE] : a \in 0..MaxRecovery}
         \cup {[NoFault EXCEPT !.again = a, !.gsDown = TRUE] : a \in 0..MaxRecovery}

\* The tables dropped: no rows.
Dropped(d) == [d EXCEPT !.schema = FALSE, !.settings = EmptyRows, !.media = {}]

\* ---------------------------------------------------------------- bootstrap
\* for key, default_value in defaults.items(): db.session.merge(Setting(key, value)),
\* then one commit at reading t.  merge() loads the row with that primary key and
\* copies value onto it (an UPDATE, with onupdate last_updated, when the value has
\* a net change); it INSERTs when there is no row.
MergeDefaults(s, defs, t) ==
    [k \in DOMAIN s \cup DOMAIN defs |->
        IF k \in DOMAIN defs /\ (~HasRow(s, k) \/ ~PyEq(defs[k], s[k].value))
        THEN Row(defs[k], t)
        ELSE s[k]]

\* A prune that deletes nothing, and one that deletes every row.
PruneNothing(s) == s
PruneAll(s) == EmptyRows

\* The rows after DELETE of the deprecated key (no row matched: a warning).
Prune(s) == IF HasRow(s, DeprecatedKey) THEN DelRow(s, DeprecatedKey) ELSE s

\* initialize_database() in the process whose defaults are DEFAULT_SETTINGS_DB(ts).
\* Returns the database after it, ok (its return value), and the settings rows
\* before and after for the handlers' records.
initialize_database(d, ts, boot) ==
    LET created == [d EXCEPT !.schema = TRUE]
        t == d.clock + 1
        merged == MergeDefaults(created.settings, DEFAULT_SETTINGS_DB(ts), t)
        afterMerge == IF merged = created.settings
                      THEN created
                      ELSE [created EXCEPT !.settings = merged, !.clock = t]
        pruned == [afterMerge EXCEPT !.settings = Prune(@)]
    IN  CASE boot = "create_fail" -> [db |-> d, ok |-> FALSE, pre |-> d.settings]
          [] boot = "commit_fail" -> [db |-> created, ok |-> FALSE, pre |-> d.settings]
          [] OTHER -> [db |-> pruned, ok |-> TRUE, pre |-> d.settings]

\* What a handler records of the bootstraps it ran.
NoBoot == [boots |-> 0, retries |-> 0, bootOk |-> FALSE, bootPre |-> EmptyRows,
           bootPost |-> EmptyRows]

Booted(b, retries) == [boots |-> 1, retries |-> retries, bootOk |-> b.ok, bootPre |-> b.pre,
                       bootPost |-> b.db.settings]

\* ---------------------------------------------------------------- save_setting
\* setting = db.session.get(Setting, key); set or add; commit.  A value equal to the
\* stored one is no net change: no UPDATE is emitted and onupdate does not run.
\* Upsert with the assignment to an existing row left out: only a missing row is
\* written.
UpsertInsertOnly(s, k, v, t) == IF HasRow(s, k) THEN s ELSE PutRow(s, k, v, t)

Upsert(s, k, v, t) ==
    IF HasRow(s, k) /\ PyEq(v, s[k].value) THEN s ELSE PutRow(s, k, v, t)

\* save_setting with the recovery branch taken on every error, not only on
\* ProgrammingError.
save_setting_recovering_always(d, ts, key, value, f) ==
    IF f.down1 \/ ~d.schema
    THEN LET b == initialize_database(d, ts, f.boot)
         IN  [db |-> b.db, result |-> FALSE, info |-> Booted(b, 0)]
    ELSE [db |-> IF HasRow(d.settings, key) /\ PyEq(value, d.settings[key].value)
                 THEN d
                 ELSE [d EXCEPT !.settings = PutRow(@, key, value, d.clock + 1),
                                !.clock = d.clock + 1],
          result |-> TRUE, info |-> NoBoot]

SaveAttempt(d, key, value) ==
    LET s2 == Upsert(d.settings, key, value, d.clock + 1)
    IN  IF s2 = d.settings THEN d ELSE [d EXCEPT !.settings = s2, !.clock = d.clock + 1]

save_setting(d, ts, key, value, f) ==
    IF Operational(d, f)
    THEN [db |-> d, result |-> FALSE, info |-> NoBoot]
    ELSE IF d.schema
    THEN [db |-> SaveAttempt(d, key, value), result |-> TRUE, info |-> NoBoot]
    ELSE LET b == initialize_database(d, ts, f.boot)
         IN  IF ~b.ok
             THEN [db |-> b.db, result |-> FALSE, info |-> Booted(b, 0)]
             ELSE IF f.again > 0
             THEN [db |-> Dropped(b.db), result |-> FALSE, info |-> Booted(b, 1)]
             ELSE IF f.down2
             THEN [db |-> b.db, result |-> FALSE, info |-> Booted(b, 1)]
             ELSE [db |-> SaveAttempt(b.db, key, value), result |-> TRUE,
                   info |-> Booted(b, 1)]

\* ---------------------------------------------------------------- get_setting
\* return default if default is not None else default_settings.get(key)
\* Fallback with the two sources in the other order: the compiled-in default
\* first, the caller's default only for a key without one.
FallbackCompiledFirst(ts, key, default) ==
    IF key \in DefaultKeys THEN DEFAULT_SETTINGS_DB(ts)[key] ELSE default

Fallback(ts, key, default) ==
    IF default # NoneV THEN default
    ELSE IF key \in DefaultKeys THEN DEFAULT_SETTINGS_DB(ts)[key]
    ELSE NoneV

get_setting(d, ts, key, default, f) ==
    IF Operational(d, f)
    THEN [db |-> d, result |-> Fallback(ts, key, default), info |-> NoBoot]
    ELSE IF d.schema
    THEN [db |-> d,
          result |-> IF HasRow(d.settings, key) THEN d.settings[key].value
                     ELSE Fallback(ts, key, default),
          info |-> NoBoot]
    ELSE LET b == initialize_database(d, ts, f.boot)
         IN  IF ~b.ok
             THEN [db |-> b.db, result |-> Fallback(ts, key, default), info |-> Booted(b, 0)]
             ELSE IF f.again > 0
             THEN [db |-> Dropped(b.db), result |-> Fallback(ts, key, default),
                   info |-> Booted(b, 1)]
             ELSE IF f.down2
             THEN [db |-> b.db, result |-> Fallback(ts, key, default), info |-> Booted(b, 1)]
             ELSE [db |-> b.db,
                   result |-> IF HasRow(b.db.settings, key) THEN b.db.settings[key].value
                              ELSE default,
                   info |-> Booted(b, 1)]

\* ---------------------------------------------------------------- load_settings_from_db
\* settings_dict = defaults.copy(); settings_dict.update({row.key: row.value})
\* Overlay with the update the other way round: the defaults written over the rows.
OverlayDefaultsLast(defs, s) ==
    [k \in DOMAIN defs \cup DOMAIN s |-> IF k \in DOMAIN defs THEN defs[k] ELSE s[k].value]

Overlay(defs, s) ==
    [k \in DOMAIN defs \cup DOMAIN s |-> IF HasRow(s, k) THEN s[k].value ELSE defs[k]]

load_settings_from_db(d, ts, f) ==
    LET defaults == DEFAULT_SETTINGS_DB(ts)
    IN  IF Operational(d, f)
        THEN [db |-> d, result |-> defaults, info |-> NoBoot]
        ELSE IF d.schema
        THEN [db |-> d, result |-> Overlay(defaults, d.settings), info |-> NoBoot]
        ELSE LET b == initialize_database(d, ts, f.boot)
             IN  IF ~b.ok
                 THEN [db |-> b.db, result |-> defaults, info |-> Booted(b, 0)]
                 ELSE IF f.again > 0
                 THEN [db |-> Dropped(b.db), result |-> defaults, info |-> Booted(b, 1)]
                 ELSE IF f.down2
                 THEN [db |-> b.db, result |-> defaults, info |-> Booted(b, 1)]
                 ELSE [db |-> b.db, result |-> Overlay(defaults, b.db.settings),
                       info |-> Booted(b, 1)]

\* ---------------------------------------------------------------- get_config_timestamp_from_db
\* A time zone: from the local wall time gapEnd on, local time is shift readings
\* ahead of UTC (daylight saving time has begun); before it, local time is UTC.
\* The shift wall times before gapEnd were skipped by the local clocks.
UTC == [gapEnd |-> 0, shift |-> 0]
SummerTime == [gapEnd |-> 4, shift |-> 2]
Zones == {UTC, SummerTime}

\* datetime.timestamp() of a naive datetime whose wall time is n: n is taken for
\* local time; a wall time inside the skipped hour is resolved with the offset
\* that was in force before the change (fold = 0).
Timestamp(n, zone) == IF zone.shift > 0 /\ n >= zone.gapEnd THEN n - zone.shift ELSE n

\* Setting.query.order_by(Setting.last_updated.desc()).first().last_updated; 0.0
\* when there is no row.
LatestSettingTs(s) ==
    IF DOMAIN s = {} THEN 0
    ELSE CHOOSE t \in {s[k].last_updated : k \in DOMAIN s} :
            \A k \in DOMAIN s : s[k].last_updated <= t

\* isinstance(media_ts_value, (int, float)) (a bool is an int), else 0.0
MediaChangedTs(v) == IF v.kind \in {"num", "bool"} THEN v.n ELSE 0

\* depth counts the recursive retries ("return get_config_timestamp_from_db()")
\* made so far in this invocation.
RECURSIVE get_config_timestamp_from_db(_, _, _, _)
get_config_timestamp_from_db(d, ts, f, depth) ==
    IF (depth = 0 /\ Operational(d, f)) \/ (depth > 0 /\ d.schema /\ f.down2)
    THEN [db |-> d, result |-> NoneV, info |-> NoBoot]
    ELSE IF d.schema
    THEN LET gs == get_setting(d, ts, "media_last_changed", Num(0),
                               [NoFault EXCEPT !.down1 = f.gsDown])
         IN  [db |-> gs.db,
              result |-> Num(Max(Timestamp(LatestSettingTs(d.settings), d.tz),
                                  MediaChangedTs(gs.result))),
              info |-> NoBoot]
    ELSE LET b == initialize_database(d, ts, IF depth < f.again THEN "ok" ELSE f.boot)
         IN  IF ~b.ok
             THEN [db |-> b.db, result |-> NoneV, info |-> Booted(b, 0)]
             ELSE LET r == get_config_timestamp_from_db(
                               IF depth < f.again THEN Dropped(b.db) ELSE b.db,
                               ts, f, depth + 1)
                  IN  [db |-> r.db, result |-> r.result,
                       info |-> [boots |-> r.info.boots + 1,
                                 retries |-> r.info.retries + 1,
                                 bootOk |-> IF r.info.boots > 0 THEN r.info.bootOk ELSE b.ok,
                                 bootPre |-> IF r.info.boots > 0 THEN r.info.bootPre ELSE b.pre,
                                 bootPost |-> IF r.info.boots > 0 THEN r.info.bootPost
                                              ELSE b.db.settings]]

\* ---------------------------------------------------------------- _touch_media_timestamp
\* now_ts = datetime.now(timezone.utc).timestamp(); save_setting('media_last_changed', now_ts)
\* (the result of save_setting is ignored).
touch_media_timestamp(d, ts, f) ==
    LET now_ts == d.clock + 1
    IN  save_setting([d EXCEPT !.clock = now_ts], ts, "media_last_changed", Num(now_ts), f)

\* ---------------------------------------------------------------- the handlers' record
\* op, its arguments (key, value: NoneV when it has none), the fault record, the
\* result, the bootstraps and retries it ran, and the database it started from.
Obs(op, key, value, f, r, d) ==
    [op |-> op, key |-> key, value |-> value, f |-> f, result |-> r.result,
     info |-> r.info, pre |-> d, prevPolled |-> polled]

Apply(d) ==
    /\ schema' = d.schema
    /\ settings' = d.settings
    /\ media' = d.media
    /\ clock' = d.clock
    /\ tz' = d.tz
    /\ driver' = d.driver
    /\ around' = around
    /\ calls' = calls

\* Values the callers save per key (config_bp.py): a number for the duration, a
\* flag for overlay_enabled, strings for the others.
SetInputs ==
    {<<"slideshow_duration_seconds", Num(30)>>, <<"overlay_enabled", Bool(FALSE)>>,
     <<DeprecatedKey, Str(1)>>, <<"max_resolution", Str(2)>>}

\* The keys and fallbacks the callers read.
GetInputs ==
    {<<"slideshow_duration_seconds", NoneV>>, <<"slideshow_duration_seconds", Num(5)>>,
     <<"max_resolution", NoneV>>, <<"max_resolution", Str(3)>>}

\* ---------------------------------------------------------------- actions
\* save_setting(key, value)
Set(kv, f) ==
    \E r \in {save_setting(Db, importTs, kv[1], kv[2], f)} :
        /\ r.db.clock <= MaxClock
        /\ Apply(r.db)
        /\ last' = Obs("set", kv[1], kv[2], f, r, Db)
        /\ UNCHANGED <<uploads, thumbs, nextUuid, importTs, polled>>

\* get_setting(key, default)
Get(kd, f) ==
    \E r \in {get_setting(Db, importTs, kd[1], kd[2], f)} :
        /\ r.db.clock <= MaxClock
        /\ Apply(r.db)
        /\ last' = Obs("get", kd[1], kd[2], f, r, Db)
        /\ UNCHANGED <<uploads, thumbs, nextUuid, importTs, polled>>

\* load_settings_from_db()
LoadAll(f) ==
    \E r \in {load_settings_from_db(Db, importTs, f)} :
        /\ r.db.clock <= MaxClock
        /\ Apply(r.db)
        /\ last' = Obs("load_all", "", NoneV, f, r, Db)
        /\ UNCHANGED <<uploads, thumbs, nextUuid, importTs, polled>>

\* check_config: get_config_timestamp_from_db() for a client.
CheckConfig(f) ==
    \E r \in {get_config_timestamp_from_db(Db, importTs, f, 0)} :
        /\ r.db.clock <= MaxClock
        /\ Apply(r.db)
        /\ last' = Obs("get_last_changed", "", NoneV, f, r, Db)
        /\ UNCHANGED <<uploads, thumbs, nextUuid, importTs>>

\* check_config called by a client that keeps nothing.
GetLastChanged(f) == CheckConfig(f) /\ UNCHANGED polled

\* check_config called by the polling viewer, which keeps the timestamp it received
\* (an error response carries none).
ViewerPoll(f) ==
    /\ CheckConfig(f)
    /\ polled' = IF last'.result = NoneV THEN polled ELSE last'.result

\* _touch_media_timestamp(), the step by which upload, delete, prune and
\* update_video_settings mark the catalog as changed.
TouchMedia(f) ==
    \E r \in {touch_media_timestamp(Db, importTs, f)} :
        /\ r.db.clock <= MaxClock
        /\ Apply(r.db)
        /\ last' = Obs("touch_media", "media_last_changed", Num(clock + 1), f, r, Db)
        /\ UNCHANGED <<uploads, thumbs, nextUuid, importTs, polled>>

\* create_app(): a new process imports config.py, runs initialize_database() and
\* then load_settings_from_db() for app.config['SHOWGO_CONFIG_DB'].
CreateApp(boot, f) ==
    \E ts \in {clock + 1} :
    \E b \in {initialize_database([Db EXCEPT !.clock = ts], ts, boot)} :
    \E l \in {load_settings_from_db(b.db, ts, f)} :
    \E r \in {[result |-> l.result,
               info |-> IF l.info.boots > 0
                        THEN [l.info EXCEPT !.boots = 2]
                        ELSE Booted(b, 0)]} :
        /\ f \in Faults(b.db)
        /\ l.db.clock <= MaxClock
        /\ Apply(l.db)
        /\ importTs' = ts
        /\ last' = Obs("create_app", "", NoneV, [f EXCEPT !.boot = boot], r, Db)
        /\ UNCHANGED <<uploads, thumbs, nextUuid, polled>>

\* ---------------------------------------------------------------- media catalog
\* Largest number of files in one upload request.
MaxFiles == 1
\* Largest number of ids in one delete or prune request.
MaxBatch == 2
\* How many values uuid.uuid4() is asked for.
MaxUuid == 2
\* Largest clock reading of a catalog request (a touch reads the clock twice).
MaxMediaClock == 6

ALLOWED_IMAGE_EXTENSIONS == {"png", "jpg", "jpeg", "gif", "webp"}
ALLOWED_VIDEO_EXTENSIONS == {"mp4", "webm", "ogg"}
ALLOWED_EXTENSIONS == ALLOWED_IMAGE_EXTENSIONS \cup ALLOWED_VIDEO_EXTENSIONS
\* THUMBNAIL_EXT without its dot
THUMBNAIL_EXT == "png"

\* get_media_type, on the lower-cased text after the last dot of the name
get_media_type(ext) ==
    IF ext \in ALLOWED_IMAGE_EXTENSIONS THEN "image"
    ELSE IF ext \in ALLOWED_VIDEO_EXTENSIONS THEN "video"
    ELSE "none"

allowed_file(ext) == ext \in ALLOWED_EXTENSIONS

\* A regular file of a managed folder: "<stem>.<ext>", or "<stem>" when ext is "".
FileName(stem, ext) == [stem |-> stem, ext |-> ext, kind |-> "file"]

\* A media_files row. SQLite gives an INTEGER PRIMARY KEY the largest id in the
\* table plus one.
MediaFile(id, uuid_filename, extension, media_type) ==
    [id |-> id, uuid_filename |-> uuid_filename, extension |-> extension,
     media_type |-> media_type]

RECURSIVE MaxOf(_)
MaxOf(S) == IF S = {} THEN 0 ELSE LET x == CHOOSE y \in S : TRUE IN Max(x, MaxOf(S \ {x}))

NewId(rows) == MaxOf({r.id : r \in rows}) + 1

get_disk_filename(r) == FileName(r.uuid_filename, r.extension)
\* get_thumbnail_filename with the record's own extension in place of THUMBNAIL_EXT.
get_thumbnail_filename_own_ext(r) == FileName(r.uuid_filename, r.extension)
get_thumbnail_filename(r) == FileName(r.uuid_filename, THUMBNAIL_EXT)

\* process_image(path) with the defaults upload_media passes: an animated GIF is
\* skipped (True); a file whose dimensions cannot be read gives False; for every
\* other image current_app.config['VGA_RESOLUTION'] is read, a key that neither
\* Config nor create_app defines, so KeyError is raised.
process_image(content) ==
    CASE content = "animated" -> "ok"
      [] content = "unreadable" -> "fail"
      [] OTHER -> "raise"

\* ---------------------------------------------------------------- web-playability validator
ALLOWED_VIDEO_CODECS == {"h264", "vp9", "av1"}
ALLOWED_AUDIO_CODECS == {"aac", "opus", "mp3", "vorbis"}

\* Largest number of streams in a probed file.
MaxStreams == 3

\* A stream as the prober reports it.
Stream(type, codec) == [type |-> type, codec |-> codec]
ProbedStreams ==
    {Stream("video", "h264"), Stream("video", "hevc"),
     Stream("audio", "aac"), Stream("audio", "ac3")}

\* The codec of the first stream of the type; "none" when the file has no such
\* stream (the codec is undetectable).
FirstCodec(streams, type) ==
    LET idx == {i \in DOMAIN streams : streams[i].type = type}
    IN  IF idx = {} THEN "none"
        ELSE streams[CHOOSE i \in idx : \A j \in idx : i <= j].codec

\* The validator with the audio stream left unchecked.
validate_video_codec_only(streams) ==
    FirstCodec(streams, "video") \in ALLOWED_VIDEO_CODECS

\* validate_web_playable: both first streams' codecs against the two allow-lists.
validate_web_playable(streams) ==
    /\ FirstCodec(streams, "video") \in ALLOWED_VIDEO_CODECS
    /\ FirstCodec(streams, "audio") \in ALLOWED_AUDIO_CODECS

\* What the prober reports for the uploaded contents.
Probe(content) ==
    CASE content = "playable" -> <<Stream("video", "h264"), Stream("audio", "aac")>>
      [] content = "unplayable" -> <<Stream("video", "h264"), Stream("audio", "ac3")>>
      [] OTHER -> <<>>

\* is_web_friendly_video(path): imported by config_bp.py from utils.py, which does
\* not define it; the validator on what the prober reports for the file.
is_web_friendly_video(content) == validate_web_playable(Probe(content))

\* ---------------------------------------------------------------- upload_media
\* An uploaded file: the lower-cased extension of its name, what its content is
\* ("animated", "still", "unreadable" for images; "playable", "unplayable" for
\* videos) and what goes wrong while it is handled:
\*   save_fail    file.save raises OSError
\*   too_large    RequestEntityTooLarge is raised
\*   thumb_fail   generate_thumbnail returns (False, None) and leaves no file
\*   thumb_left   generate_thumbnail returns (False, None) and leaves what the
\*                tool wrote at the destination
\*   commit_fail  db.session.commit() raises
Upload(ext, content, fate) == [ext |-> ext, content |-> content, fate |-> fate]

UploadFiles ==
    {Upload("gif", "animated", "ok"), Upload("jpg", "still", "ok"),
     Upload("jpg", "unreadable", "ok"), Upload("mp4", "playable", "ok"),
     Upload("mp4", "unplayable", "ok"), Upload("exe", "still", "ok"),
     Upload("mp4", "playable", "thumb_fail"), Upload("mp4", "playable", "commit_fail"),
     Upload("mp4", "playable", "too_large"), Upload("mp4", "playable", "save_fail")}

\* The content-id taken from the id the row will get, in place of uuid4().
uuid4_from_row_id(st) == NewId(st.media)

\* uuid.uuid4().hex: the next value of the source.
uuid4(st) == st.uuid

\* UploadOne with the rejected video left where file.save put it.
UploadOne_keeping_rejected(st, file) ==
    LET uuid_hex == uuid4(st)
        disk == FileName(uuid_hex, file.ext)
        thumb == FileName(uuid_hex, THUMBNAIL_EXT)
        media_type == get_media_type(file.ext)
        drawn == [st EXCEPT !.uuid = @ + 1]
        saved == [drawn EXCEPT !.uploads = @ \cup {disk}]
        written == IF file.fate # "thumb_fail"
                   THEN [saved EXCEPT !.thumbs = @ \cup {thumb}]
                   ELSE saved
        thumbed == IF file.fate \in {"thumb_fail", "thumb_left"} /\ media_type = "image"
                   THEN [written EXCEPT !.thumb_error_count = @ + 1]
                   ELSE written
        Failed(s) == [s EXCEPT !.error_count = @ + 1, !.uploads = @ \ {disk}]
    IN  IF st.stop THEN st
        ELSE IF ~allowed_file(file.ext) THEN [st EXCEPT !.error_count = @ + 1]
        ELSE IF media_type = "none" THEN [drawn EXCEPT !.error_count = @ + 1]
        ELSE IF file.fate = "save_fail" THEN Failed(drawn)
        ELSE IF file.fate = "too_large" THEN [Failed(drawn) EXCEPT !.stop = TRUE]
        ELSE IF media_type = "video" /\ ~is_web_friendly_video(file.content)
             THEN [saved EXCEPT !.error_count = @ + 1]
        ELSE IF media_type = "image" /\ process_image(file.content) # "ok"
             THEN Failed(saved)
        ELSE IF file.fate = "commit_fail" \/ ~st.tables THEN Failed(thumbed)
        ELSE [thumbed EXCEPT
                 !.media = @ \cup {MediaFile(NewId(@), uuid_hex, file.ext, media_type)},
                 !.uploaded_count = @ + 1]

\* UploadOne with the thumbnail generated before the video is checked.
UploadOne_thumbnail_first(st, file) ==
    LET uuid_hex == uuid4(st)
        disk == FileName(uuid_hex, file.ext)
        thumb == FileName(uuid_hex, THUMBNAIL_EXT)
        media_type == get_media_type(file.ext)
        drawn == [st EXCEPT !.uuid = @ + 1]
        saved == [drawn EXCEPT !.uploads = @ \cup {disk}]
        written == IF file.fate # "thumb_fail"
                   THEN [saved EXCEPT !.thumbs = @ \cup {thumb}]
                   ELSE saved
        thumbed == IF file.fate \in {"thumb_fail", "thumb_left"} /\ media_type = "image"
                   THEN [written EXCEPT !.thumb_error_count = @ + 1]
                   ELSE written
        \* error_count += 1 and os.remove of the original if it exists
        Failed(s) == [s EXCEPT !.error_count = @ + 1, !.uploads = @ \ {disk}]
    IN  IF st.stop THEN st
        ELSE IF ~allowed_file(file.ext) THEN [st EXCEPT !.error_count = @ + 1]
        ELSE IF media_type = "none" THEN [drawn EXCEPT !.error_count = @ + 1]
        ELSE IF file.fate = "save_fail" THEN Failed(drawn)
        ELSE IF file.fate = "too_large" THEN [Failed(drawn) EXCEPT !.stop = TRUE]
        ELSE IF media_type = "video" /\ ~is_web_friendly_video(file.content)
             THEN Failed(thumbed)
        ELSE IF media_type = "image" /\ process_image(file.content) # "ok"
             THEN Failed(saved)
        ELSE IF file.fate = "commit_fail" \/ ~st.tables THEN Failed(thumbed)
        ELSE [thumbed EXCEPT
                 !.media = @ \cup {MediaFile(NewId(@), uuid_hex, file.ext, media_type)},
                 !.uploaded_count = @ + 1]

\* One pass of the loop "for file in files". st: the rows, the two folders, the
\* uuid source and the counters of the request; stop is set by "break".
UploadOne(st, file) ==
    LET uuid_hex == uuid4(st)
        disk == FileName(uuid_hex, file.ext)
        thumb == FileName(uuid_hex, THUMBNAIL_EXT)
        media_type == get_media_type(file.ext)
        drawn == [st EXCEPT !.uuid = @ + 1]
        saved == [drawn EXCEPT !.uploads = @ \cup {disk}]
        written == IF file.fate # "thumb_fail"
                   THEN [saved EXCEPT !.thumbs = @ \cup {thumb}]
                   ELSE saved
        thumbed == IF file.fate \in {"thumb_fail", "thumb_left"} /\ media_type = "image"
                   THEN [written EXCEPT !.thumb_error_count = @ + 1]
                   ELSE written
        \* error_count += 1 and os.remove of the original if it exists
        Failed(s) == [s EXCEPT !.error_count = @ + 1, !.uploads = @ \ {disk}]
    IN  IF st.stop THEN st
        ELSE IF ~allowed_file(file.ext) THEN [st EXCEPT !.error_count = @ + 1]
        ELSE IF media_type = "none" THEN [drawn EXCEPT !.error_count = @ + 1]
        ELSE IF file.fate = "save_fail" THEN Failed(drawn)
        ELSE IF file.fate = "too_large" THEN [Failed(drawn) EXCEPT !.stop = TRUE]
        ELSE IF media_type = "video" /\ ~is_web_friendly_video(file.content)
             THEN Failed(saved)
        ELSE IF media_type = "image" /\ process_image(file.content) # "ok"
             THEN Failed(saved)
        ELSE IF file.fate = "commit_fail" \/ ~st.tables THEN Failed(thumbed)
        ELSE [thumbed EXCEPT
                 !.media = @ \cup {MediaFile(NewId(@), uuid_hex, file.ext, media_type)},
                 !.uploaded_count = @ + 1]

RECURSIVE UploadAll(_, _)
UploadAll(st, files) ==
    IF files = <<>> THEN st ELSE UploadAll(UploadOne(st, Head(files)), Tail(files))

\* upload_media on database d, folders up and th, uuid source u: the loop, then
\* _touch_media_timestamp() when a row was committed. An empty list is the
\* request without a selected file.
upload_media(d, ts, up, th, u, files, f) ==
    LET st == UploadAll([media |-> d.media, uploads |-> up, thumbs |-> th, uuid |-> u,
                         tables |-> d.schema, uploaded_count |-> 0, error_count |-> 0,
                         thumb_error_count |-> 0, stop |-> FALSE], files)
        media_changed == st.uploaded_count > 0
        d1 == [d EXCEPT !.media = st.media]
    IN  [db |-> IF media_changed THEN touch_media_timestamp(d1, ts, f).db ELSE d1,
         uploads |-> st.uploads, thumbs |-> st.thumbs, uuid |-> st.uuid,
         touched |-> media_changed,
         counts |-> [done |-> st.uploaded_count, errors |-> st.error_count]]

\* ---------------------------------------------------------------- upload names
\* A name is the sequence of its characters. str.lower() on ASCII letters.
UpperCase == <<"A", "B", "C", "D", "E", "F", "G", "H", "I", "J", "K", "L", "M",
               "N", "O", "P", "Q", "R", "S", "T", "U", "V", "W", "X", "Y", "Z">>
LowerCase == <<"a", "b", "c", "d", "e", "f", "g", "h", "i", "j", "k", "l", "m",
               "n", "o", "p", "q", "r", "s", "t", "u", "v", "w", "x", "y", "z">>
DigitChars == {"0", "1", "2", "3", "4", "5", "6", "7", "8", "9"}

lower(c) ==
    IF \E i \in DOMAIN UpperCase : UpperCase[i] = c
    THEN LowerCase[CHOOSE i \in DOMAIN UpperCase : UpperCase[i] = c]
    ELSE c

str_lower(s) == [i \in DOMAIN s |-> lower(s[i])]

\* The string of a sequence of characters.
RECURSIVE Text(_)
Text(s) == IF s = <<>> THEN "" ELSE Head(s) \o Text(Tail(s))

HasDot(s) == \E i \in DOMAIN s : s[i] = "."

\* filename.rsplit('.', 1)[1] of a name with a dot: what follows its last dot.
RECURSIVE rsplit_1(_)
rsplit_1(s) ==
    IF s[Len(s)] = "." THEN <<>>
    ELSE rsplit_1(SubSeq(s, 1, Len(s) - 1)) \o <<s[Len(s)]>>

\* get_media_type(filename)
get_media_type_case_sensitive(filename) ==
    IF filename = <<>> \/ ~HasDot(filename) THEN "none"
    ELSE get_media_type(Text(rsplit_1(filename)))

get_media_type_of_name(filename) ==
    IF filename = <<>> \/ ~HasDot(filename) THEN "none"
    ELSE get_media_type(Text(str_lower(rsplit_1(filename))))

\* allowed_file(filename)
allowed_file_of_name(filename) ==
    HasDot(filename) /\ allowed_file(Text(str_lower(rsplit_1(filename))))

\* str.strip(chars)
RECURSIVE strip(_, _)
strip(s, chars) ==
    IF s = <<>> THEN s
    ELSE IF Head(s) \in chars THEN strip(Tail(s), chars)
    ELSE IF s[Len(s)] \in chars THEN strip(SubSeq(s, 1, Len(s) - 1), chars)
    ELSE s

\* "_".join(s.split()) of a name without white space at either end: every run of
\* white space becomes one underscore.
RECURSIVE JoinWords(_)
JoinWords(s) ==
    IF s = <<>> THEN s
    ELSE IF Head(s) = " "
         THEN IF Len(s) > 1 /\ s[2] = " " THEN JoinWords(Tail(s))
              ELSE <<"_">> \o JoinWords(Tail(s))
    ELSE <<Head(s)>> \o JoinWords(Tail(s))

\* The characters werkzeug's secure_filename keeps: [A-Za-z0-9_.-]
SafeChars ==
    {UpperCase[i] : i \in DOMAIN UpperCase} \cup {LowerCase[i] : i \in DOMAIN LowerCase}
        \cup DigitChars \cup {"_", ".", "-"}
IsSafeChar(c) == c \in SafeChars

\* werkzeug.utils.secure_filename on an ASCII name: path separators become
\* spaces, the words are joined with "_", every other character outside
\* SafeChars is dropped, and dots and underscores are stripped from both ends.
secure_filename(filename) ==
    LET spaced == [i \in DOMAIN filename |-> IF filename[i] = "/" THEN " " ELSE filename[i]]
    IN  strip(SelectSeq(JoinWords(strip(spaced, {" "})), IsSafeChar), {".", "_"})

\* The file of the upload loop for a named upload whose name passed allowed_file
\* and keeps a dot in secure_filename: file_ext is
\* original_filename.rsplit('.', 1)[1].lower().
file_ext(original_filename) == Text(str_lower(rsplit_1(original_filename)))

\* A named upload, and what the loop makes of its name. Without a dot in
\* original_filename, rsplit('.', 1)[1] raises IndexError outside the try block
\* and the request ends with it.
NamedUpload(filename, content) == [filename |-> filename, content |-> content]
RaisesIndexError(file) ==
    allowed_file_of_name(file.filename) /\ ~HasDot(secure_filename(file.filename))
FileOf(file) ==
    Upload(IF allowed_file_of_name(file.filename)
           THEN file_ext(secure_filename(file.filename)) ELSE "",
           file.content, "ok")

\* ---------------------------------------------------------------- delete and prune
\* The id strings a form posts, and int() of them ("abc" raises ValueError).
Digits == <<"1", "2">>
IdInputs == {"1", "2", "abc"}
IsInt(id_str) == \E n \in DOMAIN Digits : Digits[n] = id_str
ParseInt(id_str) == CHOOSE n \in DOMAIN Digits : Digits[n] = id_str

\* What goes wrong in a delete or prune request:
\*   getAt       db.session.get raises for the id at this position (0: for none)
\*   rmFail      os.remove raises OSError
\*   commitFail  db.session.commit() raises
\*   touch       the fault record of _touch_media_timestamp's save_setting
NoMediaFault == [getAt |-> 0, rmFail |-> FALSE, commitFail |-> FALSE, touch |-> NoFault]

MediaFaults ==
    {NoMediaFault, [NoMediaFault EXCEPT !.rmFail = TRUE],
     [NoMediaFault EXCEPT !.commitFail = TRUE],
     [NoMediaFault EXCEPT !.touch = [NoFault EXCEPT !.down1 = TRUE]],
     [NoMediaFault EXCEPT !.getAt = MaxBatch]}

\* One pass of either loop "for media_id in ...". st.pending holds the rows given
\* to db.session.delete and not yet flushed: db.session.get returns such a row
\* from the identity map without a statement. For an id the session does not hold,
\* get emits a SELECT, before which the session autoflushes: the pending rows are
\* deleted in the transaction (st.flushed) and a later get of them finds no row.
\* db.session.rollback() undoes both. rmFiles: delete_media removes the files;
\* missErr: delete_media counts an id without a row as an error. st.counted holds
\* the rows deleted_count was incremented for.
DropOne(st, id_str, flt, rmFiles, missErr) ==
    LET pos == st.pos + 1
        at == [st EXCEPT !.pos = pos]
        held == IF IsInt(id_str) THEN {r \in st.pending : r.id = ParseInt(id_str)} ELSE {}
        flushed == IF held = {} THEN st.flushed \cup st.pending ELSE st.flushed
        pending == IF held = {} THEN {} ELSE st.pending
        found == IF held # {} THEN held
                 ELSE IF IsInt(id_str)
                 THEN {r \in st.media \ flushed : r.id = ParseInt(id_str)}
                 ELSE {}
        gone == {get_disk_filename(r) : r \in found}
        goneThumbs == {get_thumbnail_filename(r) : r \in found}
    IN  IF ~IsInt(id_str) THEN [at EXCEPT !.error_count = @ + 1]
        ELSE IF ~st.tables \/ flt.getAt = pos
             THEN [at EXCEPT !.error_count = @ + 1, !.pending = {}, !.flushed = {}]
        ELSE IF found = {}
             THEN IF missErr
                  THEN [at EXCEPT !.error_count = @ + 1, !.pending = pending,
                                  !.flushed = flushed]
                  ELSE [at EXCEPT !.pending = pending, !.flushed = flushed]
        ELSE [at EXCEPT
                 !.uploads = IF rmFiles /\ ~flt.rmFail THEN @ \ gone ELSE @,
                 !.thumbs = IF rmFiles /\ ~flt.rmFail THEN @ \ goneThumbs ELSE @,
                 !.pending = pending \cup found,
                 !.flushed = flushed,
                 !.deleted_count = @ + 1,
                 !.counted = @ \cup found,
                 !.media_changed = TRUE]

RECURSIVE DropAll(_, _, _, _, _)
DropAll(st, ids, flt, rmFiles, missErr) ==
    IF ids = <<>> THEN st
    ELSE DropAll(DropOne(st, Head(ids), flt, rmFiles, missErr), Tail(ids), flt,
                 rmFiles, missErr)

DropStart(d, up, th) ==
    [media |-> d.media, tables |-> d.schema, uploads |-> up, thumbs |-> th, pos |-> 0,
     pending |-> {}, flushed |-> {}, deleted_count |-> 0, error_count |-> 0,
     counted |-> {}, media_changed |-> FALSE]

\* delete_media: the loop; then, when a row was given to delete, commit and
\* _touch_media_timestamp(); a failed commit rolls back and reports every id as
\* an error.
delete_media(d, ts, up, th, ids, flt) ==
    LET st == DropAll(DropStart(d, up, th), ids, flt, TRUE, TRUE)
        committed == st.media_changed /\ ~flt.commitFail
        d1 == [d EXCEPT !.media = IF committed THEN @ \ (st.pending \cup st.flushed) ELSE @]
    IN  [db |-> IF committed THEN touch_media_timestamp(d1, ts, flt.touch).db ELSE d1,
         uploads |-> st.uploads, thumbs |-> st.thumbs,
         touched |-> committed,
         counted |-> IF st.media_changed /\ flt.commitFail THEN {} ELSE st.counted,
         counts |-> IF st.media_changed /\ flt.commitFail
                    THEN [done |-> 0, errors |-> Len(ids)]
                    ELSE [done |-> st.deleted_count, errors |-> st.error_count]]

\* remove_missing_media_db_entries: the loop, then the commit of whatever is
\* pending, with or without errors; a failed commit returns
\* (0, deleted_count + error_count).
remove_missing_media_db_entries(d, ids, flt) ==
    LET st == DropAll(DropStart(d, {}, {}), ids, flt, FALSE, FALSE)
        committed == st.media_changed /\ ~flt.commitFail
    IN  [db |-> [d EXCEPT !.media = IF committed THEN @ \ (st.pending \cup st.flushed) ELSE @],
         counts |-> IF st.media_changed /\ flt.commitFail
                    THEN [done |-> 0, errors |-> st.deleted_count + st.error_count]
                    ELSE [done |-> st.deleted_count, errors |-> st.error_count]]

\* cleanup_missing_media_db_route: _touch_media_timestamp() only
\* "if deleted_count > 0 and error_count == 0".
cleanup_missing_media_db_route(d, ts, ids, flt) ==
    LET r == remove_missing_media_db_entries(d, ids, flt)
        touched == r.counts.done > 0 /\ r.counts.errors = 0
    IN  [db |-> IF touched THEN touch_media_timestamp(r.db, ts, flt.touch).db ELSE r.db,
         touched |-> touched, counts |-> r.counts]

\* ---------------------------------------------------------------- catalog requests
\* The lists a request carries: up to max entries of S.
Batches(S, max) == UNION {[1..n -> S] : n \in 0..max}

TouchFaults == {NoFault, [NoFault EXCEPT !.down1 = TRUE]}

\* get_config_timestamp_from_db() as a client would receive it on database d,
\* with nothing going wrong during the call.
LastChanged(d) == get_config_timestamp_from_db(d, importTs, NoFault, 0).result

\* What a catalog request leaves in last: whether the persistence layer raised
\* nothing during it (clean), whether it called _touch_media_timestamp, how many
\* rows it added and removed, and what a client polling just before the request
\* received.
MediaObs(op, clean, r) ==
    [op |-> op, clean |-> clean, touched |-> r.touched,
     added |-> Cardinality(r.db.media \ media),
     removed |-> Cardinality(media \ r.db.media),
     before |-> LastChanged(Db)]

\* POST /config/upload
UploadMedia(files, f) ==
    \E r \in {upload_media(Db, importTs, uploads, thumbs, nextUuid, files, f)} :
        /\ r.db.clock <= MaxMediaClock
        /\ r.uuid <= MaxUuid + 1
        /\ Apply(r.db)
        /\ uploads' = r.uploads
        /\ thumbs' = r.thumbs
        /\ nextUuid' = r.uuid
        /\ last' = MediaObs("upload",
                            /\ f = NoFault
                            /\ \A i \in DOMAIN files : files[i].fate # "commit_fail",
                            r)
        /\ UNCHANGED <<importTs, polled>>

\* POST /config/delete
DeleteMedia(ids, flt) ==
    \E r \in {delete_media(Db, importTs, uploads, thumbs, ids, flt)} :
        /\ r.db.clock <= MaxMediaClock
        /\ Apply(r.db)
        /\ uploads' = r.uploads
        /\ thumbs' = r.thumbs
        /\ last' = MediaObs("delete", flt = NoMediaFault, r)
        /\ UNCHANGED <<nextUuid, importTs, polled>>

\* POST /config/cleanup/missing-db
PruneMissing(ids, flt) ==
    \E r \in {cleanup_missing_media_db_route(Db, importTs, ids, flt)} :
        /\ r.db.clock <= MaxMediaClock
        /\ Apply(r.db)
        /\ last' = MediaObs("prune", flt = NoMediaFault, r)
        /\ UNCHANGED <<uploads, thumbs, nextUuid, importTs, polled>>

\* ---------------------------------------------------------------- paths
\* A string is the sequence of its pieces of text; no piece begins with another
\* piece, so one string begins with another exactly when its pieces do.
startswith(s, prefix) == Len(prefix) <= Len(s) /\ SubSeq(s, 1, Len(prefix)) = prefix

\* os.path.join(a, b): an absolute b discards a.
join(a, b) ==
    IF b # <<>> /\ Head(b) = "/" THEN b
    ELSE IF a = <<>> \/ a[Len(a)] = "/" THEN a \o b
    ELSE a \o <<"/">> \o b

\* path.split('/'): acc the segments read, cur the one being read.
RECURSIVE Segments(_, _, _)
Segments(path, acc, cur) ==
    IF path = <<>> THEN Append(acc, cur)
    ELSE IF Head(path) = "/" THEN Segments(Tail(path), Append(acc, cur), <<>>)
    ELSE Segments(Tail(path), acc, Append(cur, Head(path)))

\* os.path.normpath of an absolute path: empty and '.' segments are dropped and
\* a '..' segment drops the segment before it ('/..' is '/').
RECURSIVE Resolve(_, _)
Resolve(segs, kept) ==
    IF segs = <<>> THEN kept
    ELSE LET seg == Head(segs)
         IN  IF seg = <<>> \/ seg = <<".">> THEN Resolve(Tail(segs), kept)
             ELSE IF seg = <<".", ".">>
                  THEN Resolve(Tail(segs),
                               IF kept = <<>> THEN kept ELSE SubSeq(kept, 1, Len(kept) - 1))
             ELSE Resolve(Tail(segs), Append(kept, seg))

RECURSIVE JoinSegments(_)
JoinSegments(segs) ==
    IF segs = <<>> THEN <<>> ELSE <<"/">> \o Head(segs) \o JoinSegments(Tail(segs))

\* os.path.abspath of an absolute path.
abspath(path) ==
    LET kept == Resolve(Segments(path, <<>>, <<>>), <<>>)
    IN  IF kept = <<>> THEN <<"/">> ELSE JoinSegments(kept)

\* Config.BASE_DIR and the two managed folders.
BASE_DIR == <<"/", "srv", "/", "showgo">>
UPLOAD_FOLDER == join(BASE_DIR, <<"uploads">>)
THUMBNAIL_FOLDER == join(BASE_DIR, <<"thumbnails">>)

\* A file or a directory by its absolute path.
FileAt(path) == [path |-> path, kind |-> "file"]
DirAt(path) == [path |-> path, kind |-> "dir"]

\* os.makedirs(UPLOAD_FOLDER), os.makedirs(THUMBNAIL_FOLDER)
ManagedFolders == {DirAt(UPLOAD_FOLDER), DirAt(THUMBNAIL_FOLDER)}

\* ---------------------------------------------------------------- concurrent calls
\* The worker processes that serve requests at the same time, each with a
\* session of its own.
Workers == {1, 2}

\* A call in flight: which function (op), where it is (pc), its arguments, what
\* its session loaded, its result, the last_updated its commit wrote (0: it
\* emitted no statement), the workers whose calls had finished before it and
\* the workers whose calls were in flight during it.
Idle == [op |-> "none", pc |-> "idle", key |-> "", value |-> NoneV, had |-> FALSE,
         loaded |-> EmptyRows, result |-> FALSE, stamp |-> 0, conflict |-> FALSE,
         pruned |-> FALSE, after |-> {}, during |-> {}]

\* The store a process is constructed on, on a server in the given zone: a fresh
\* database, create_app() run once.
Boot(zone, drv) ==
    \E boot \in BootOutcomes :
        LET fresh == [schema |-> FALSE, settings |-> EmptyRows, media |-> {},
                      clock |-> 1, tz |-> zone, driver |-> drv]
            b == initialize_database(fresh, 1, boot)
        IN  /\ schema = b.db.schema
            /\ settings = b.db.settings
            /\ media = b.db.media
            /\ nextUuid = 1
            /\ clock = b.db.clock
            /\ importTs = 1
            /\ tz = zone
            /\ driver = drv
            /\ uploads = {}
            /\ thumbs = {}
            /\ around = ManagedFolders
            /\ calls = [w \in Workers |-> Idle]
            /\ polled = NoneV
            /\ last = [op |-> "init", key |-> "", value |-> NoneV,
                       f |-> [NoFault EXCEPT !.boot = boot], result |-> NoneV,
                       info |-> Booted(b, 0), pre |-> fresh, prevPolled |-> NoneV]

Init == \E drv \in Drivers : Boot(UTC, drv)

Next ==
    \/ \E kv \in SetInputs, f \in Faults(Db) : Set(kv, f)
    \/ \E kd \in GetInputs, f \in Faults(Db) : Get(kd, f)
    \/ \E f \in Faults(Db) : LoadAll(f)
    \/ \E f \in TsFaults(Db) : GetLastChanged(f)
    \/ \E f \in Faults(Db) : TouchMedia(f)
    \/ \E boot \in BootOutcomes, f \in Faults(Dropped(Db)) \cup Faults(Db) : CreateApp(boot, f)

Spec == Init /\ [][Next]_vars

\* The change-timestamp tracker with its polling viewer: the writes that move the
\* timestamp, and the viewer's polls.
NextPoll ==
    \/ \E kv \in SetInputs, f \in Faults(Db) : Set(kv, f)
    \/ \E f \in Faults(Db) : TouchMedia(f)
    \/ \E boot \in BootOutcomes, f \in Faults(Dropped(Db)) \cup Faults(Db) : CreateApp(boot, f)
    \/ \E f \in TsFaults(Db) : ViewerPoll(f)

InitPoll == \E zone \in Zones, drv \in Drivers : Boot(zone, drv)

SpecPoll == InitPoll /\ [][NextPoll]_vars

\* The media catalog: the three requests that add or remove rows.
NextMedia ==
    \/ \E files \in Batches(UploadFiles, MaxFiles), f \in TouchFaults : UploadMedia(files, f)
    \/ \E ids \in Batches(IdInputs, MaxBatch), flt \in MediaFaults : DeleteMedia(ids, flt)
    \/ \E ids \in Batches(IdInputs, MaxBatch), flt \in {x \in MediaFaults : ~x.rmFail} :
            PruneMissing(ids, flt)

SpecMedia == Init /\ [][NextMedia]_vars

\* ---------------------------------------------------------------- catalog requests, recorded in full
\* What a catalog request leaves in last when its arguments and results are kept:
\* the files or ids it was given, its fault record, the value uuid.uuid4() held for
\* its first file, its counters, the rows a delete counted as deleted, and the rows
\* the request added and removed.
CatalogObs(op, files, ids, flt, r) ==
    [op |-> op, files |-> files, ids |-> ids, flt |-> flt, uuid0 |-> nextUuid,
     counts |-> r.counts,
     counted |-> IF "counted" \in DOMAIN r THEN r.counted ELSE {},
     added |-> r.db.media \ media,
     removed |-> media \ r.db.media]

\* POST /config/upload
RegisterMedia(files, f) ==
    \E r \in {upload_media(Db, importTs, uploads, thumbs, nextUuid, files, f)} :
        /\ r.db.clock <= MaxMediaClock
        /\ r.uuid <= MaxUuid + 1
        /\ Apply(r.db)
        /\ uploads' = r.uploads
        /\ thumbs' = r.thumbs
        /\ nextUuid' = r.uuid
        /\ last' = CatalogObs("upload", files, <<>>, [NoMediaFault EXCEPT !.touch = f], r)
        /\ UNCHANGED <<importTs, polled>>

\* POST /config/delete
RemoveMedia(ids, flt) ==
    \E r \in {delete_media(Db, importTs, uploads, thumbs, ids, flt)} :
        /\ r.db.clock <= MaxMediaClock
        /\ Apply(r.db)
        /\ uploads' = r.uploads
        /\ thumbs' = r.thumbs
        /\ last' = CatalogObs("delete", <<>>, ids, flt, r)
        /\ UNCHANGED <<nextUuid, importTs, polled>>

\* POST /config/cleanup/missing-db
PruneMedia(ids, flt) ==
    \E r \in {cleanup_missing_media_db_route(Db, importTs, ids, flt)} :
        /\ r.db.clock <= MaxMediaClock
        /\ Apply(r.db)
        /\ last' = CatalogObs("prune", <<>>, ids, flt, r)
        /\ UNCHANGED <<uploads, thumbs, nextUuid, importTs, polled>>

\* The faults of a catalog request other than those of its timestamp write.
CatalogFaults == {x \in MediaFaults : x.touch = NoFault}

\* The catalog of a deployment on the database Config names.
InitCatalog == Boot(UTC, "sqlite")

\* Register and delete.
NextCatalog ==
    \/ \E files \in Batches(UploadFiles, MaxFiles) : RegisterMedia(files, NoFault)
    \/ \E ids \in Batches(IdInputs, MaxBatch), flt \in CatalogFaults : RemoveMedia(ids, flt)

SpecCatalog == InitCatalog /\ [][NextCatalog]_vars

\* Register and prune.
NextPrune ==
    \/ \E files \in Batches(UploadFiles, MaxFiles) : RegisterMedia(files, NoFault)
    \/ \E ids \in Batches(IdInputs, MaxBatch), flt \in {x \in CatalogFaults : ~x.rmFail} :
            PruneMedia(ids, flt)

SpecPrune == InitCatalog /\ [][NextPrune]_vars

\* ---------------------------------------------------------------- names in the managed folders
\* Largest number of entries put into the two managed folders out of band.
MaxStrays == 2

\* A stem n > 0 stands for the n-th 32-character lower-case hex token (uuid4().hex
\* gives 1, 2, ... in turn); a stem -k for OtherStems[k]: its text, text.lower(),
\* len(text) and whether all its characters are in '0123456789abcdef'.
OtherStems ==
    << [text |-> ".DS_Store", lower |-> ".ds_store", len |-> 9, hex |-> FALSE],
       [text |-> "Thumbs", lower |-> "thumbs", len |-> 6, hex |-> FALSE],
       [text |-> "notes", lower |-> "notes", len |-> 5, hex |-> FALSE],
       [text |-> "0123456789ABCDEF0123456789ABCDEF",
        lower |-> "0123456789abcdef0123456789abcdef", len |-> 32, hex |-> FALSE],
       [text |-> "deadbeef", lower |-> "deadbeef", len |-> 8, hex |-> TRUE] >>

StemText(stem) == IF stem > 0 THEN ToString(stem) ELSE OtherStems[-stem].text
StemLower(stem) == IF stem > 0 THEN ToString(stem) ELSE OtherStems[-stem].lower
StemLen(stem) == IF stem > 0 THEN 32 ELSE OtherStems[-stem].len
StemHex(stem) == IF stem > 0 THEN TRUE ELSE OtherStems[-stem].hex

\* str.lower() of an extension
Lower(ext) ==
    CASE ext = "JPG" -> "jpg"
      [] ext = "DB" -> "db"
      [] OTHER -> ext

\* A subdirectory of a managed folder.
DirName(stem, ext) == [stem |-> stem, ext |-> ext, kind |-> "dir"]

\* The name of an entry as a string: a sequence of pieces of text.
NameOf(e) == <<StemText(e.stem)>> \o (IF e.ext = "" THEN <<>> ELSE <<".", e.ext>>)

\* A content-id no upload of this deployment was given.
ForeignToken == 9

\* What is put into a managed folder out of band.
Strays ==
    {FileName(ForeignToken, "jpg"), FileName(ForeignToken, "png"),
     FileName(ForeignToken, "txt"), FileName(-3, "txt"), FileName(-1, ""),
     FileName(-2, "db"), DirName(-3, ""), FileName(-4, "JPG"), FileName(-5, "png")}

\* os.path.isfile / os.path.isdir of the entry named by e in a folder
isfile(folder, e) == [e EXCEPT !.kind = "file"] \in folder
isdir(folder, e) == [e EXCEPT !.kind = "dir"] \in folder

\* os.listdir: the entries in some order.
RECURSIVE listdir(_)
listdir(folder) ==
    IF folder = {} THEN <<>>
    ELSE LET e == CHOOSE x \in folder : TRUE IN <<e>> \o listdir(folder \ {e})

\* ---------------------------------------------------------------- get_database_media
\* MediaFile.query.all() in id order.
RECURSIVE AllMedia(_)
AllMedia(rows) ==
    IF rows = {} THEN <<>>
    ELSE LET r == CHOOSE x \in rows : \A y \in rows : x.id <= y.id
         IN  <<r>> \o AllMedia(rows \ {r})

get_database_media(d, ts, f) ==
    LET none == [all_media |-> <<>>, db_uuids |-> {}]
        read(db) == [all_media |-> AllMedia(db.media),
                     db_uuids |-> {r.uuid_filename : r \in db.media}]
    IN  IF Operational(d, f)
        THEN [db |-> d, result |-> none, info |-> NoBoot]
        ELSE IF d.schema
        THEN [db |-> d, result |-> read(d), info |-> NoBoot]
        ELSE LET b == initialize_database(d, ts, f.boot)
             IN  IF ~b.ok
                 THEN [db |-> b.db, result |-> none, info |-> Booted(b, 0)]
                 ELSE IF f.again > 0
                 THEN [db |-> Dropped(b.db), result |-> none, info |-> Booted(b, 1)]
                 ELSE IF f.down2
                 THEN [db |-> b.db, result |-> none, info |-> Booted(b, 1)]
                 ELSE [db |-> b.db, result |-> read(b.db), info |-> Booted(b, 1)]

\* ---------------------------------------------------------------- find_missing_media_files
\* check_files_exist with the thumbnail required as well.
check_files_and_thumbnail_exist(r, up, th) ==
    isfile(up, get_disk_filename(r)) /\ isfile(th, get_thumbnail_filename(r))

\* MediaFile.check_files_exist: os.path.isfile(self.get_upload_path())
check_files_exist(r, up, th) == isfile(up, get_disk_filename(r))

RECURSIVE find_missing_media_files(_, _, _)
find_missing_media_files(db_media, up, th) ==
    IF db_media = <<>> THEN <<>>
    ELSE (IF ~check_files_exist(Head(db_media), up, th) THEN <<Head(db_media)>> ELSE <<>>)
         \o find_missing_media_files(Tail(db_media), up, th)

\* ---------------------------------------------------------------- find_unexpected_items
\* len(uuid_part) == 32 and all(c in '0123456789abcdef' for c in uuid_part)
is_uuid_format(stem) == StemLen(stem) = 32 /\ StemHex(stem)

\* item_name.lower() in ['.ds_store', 'thumbs.db']
IsOsArtifact(e) ==
    <<StemLower(e.stem), Lower(e.ext)>> \in {<<".ds_store", "">>, <<"thumbs", "db">>}

Item(folder, name) == [folder |-> folder, name |-> name]

NoBuckets == [orphaned_uuid_files |-> <<>>, unexpected_files |-> <<>>,
              unexpected_dirs |-> <<>>]

Listed(bucket, item) == \E i \in DOMAIN bucket : bucket[i] = item

\* ScanUpload with the second test an "if" of its own that leaves out
\* "not is_uuid_format".
ScanUpload_second_if(acc, e, db_uuids) ==
    LET item_info == Item("uploads", NameOf(e))
        is_known_media_ext == Lower(e.ext) \in ALLOWED_EXTENSIONS
        first == IF is_uuid_format(e.stem) /\ is_known_media_ext /\ e.stem \notin db_uuids
                 THEN [acc EXCEPT !.orphaned_uuid_files = Append(@, item_info)]
                 ELSE acc
    IN  IF e.kind = "dir"
        THEN [acc EXCEPT !.unexpected_dirs = Append(@, item_info)]
        ELSE IF ~IsOsArtifact(e)
        THEN [first EXCEPT !.unexpected_files = Append(@, item_info)]
        ELSE first

\* One pass of the loop over the uploads folder.
ScanUpload(acc, e, db_uuids) ==
    LET item_info == Item("uploads", NameOf(e))
        is_known_media_ext == Lower(e.ext) \in ALLOWED_EXTENSIONS
    IN  IF e.kind = "dir"
        THEN [acc EXCEPT !.unexpected_dirs = Append(@, item_info)]
        ELSE IF is_uuid_format(e.stem) /\ is_known_media_ext /\ e.stem \notin db_uuids
        THEN [acc EXCEPT !.orphaned_uuid_files = Append(@, item_info)]
        ELSE IF ~is_uuid_format(e.stem) /\ ~IsOsArtifact(e)
        THEN [acc EXCEPT !.unexpected_files = Append(@, item_info)]
        ELSE acc

\* ScanThumbnail without the test "uuid_part not in db_uuids".
ScanThumbnail_any_token(acc, e, db_uuids) ==
    LET item_info == Item("thumbnails", NameOf(e))
        is_expected_thumb_ext == Lower(e.ext) = THUMBNAIL_EXT
    IN  IF e.kind = "dir"
        THEN IF Listed(acc.unexpected_dirs, item_info) THEN acc
             ELSE [acc EXCEPT !.unexpected_dirs = Append(@, item_info)]
        ELSE IF is_uuid_format(e.stem) /\ is_expected_thumb_ext
        THEN IF Listed(acc.orphaned_uuid_files, item_info) THEN acc
             ELSE [acc EXCEPT !.orphaned_uuid_files = Append(@, item_info)]
        ELSE IF ~is_uuid_format(e.stem) /\ ~IsOsArtifact(e)
        THEN IF Listed(acc.unexpected_files, item_info) THEN acc
             ELSE [acc EXCEPT !.unexpected_files = Append(@, item_info)]
        ELSE acc

\* One pass of the loop over the thumbnails folder.
ScanThumbnail(acc, e, db_uuids) ==
    LET item_info == Item("thumbnails", NameOf(e))
        is_expected_thumb_ext == Lower(e.ext) = THUMBNAIL_EXT
    IN  IF e.kind = "dir"
        THEN IF Listed(acc.unexpected_dirs, item_info) THEN acc
             ELSE [acc EXCEPT !.unexpected_dirs = Append(@, item_info)]
        ELSE IF is_uuid_format(e.stem) /\ is_expected_thumb_ext /\ e.stem \notin db_uuids
        THEN IF Listed(acc.orphaned_uuid_files, item_info) THEN acc
             ELSE [acc EXCEPT !.orphaned_uuid_files = Append(@, item_info)]
        ELSE IF ~is_uuid_format(e.stem) /\ ~IsOsArtifact(e)
        THEN IF Listed(acc.unexpected_files, item_info) THEN acc
             ELSE [acc EXCEPT !.unexpected_files = Append(@, item_info)]
        ELSE acc

RECURSIVE ScanUploads(_, _, _)
ScanUploads(acc, entries, db_uuids) ==
    IF entries = <<>> THEN acc
    ELSE ScanUploads(ScanUpload(acc, Head(entries), db_uuids), Tail(entries), db_uuids)

RECURSIVE ScanThumbnails(_, _, _)
ScanThumbnails(acc, entries, db_uuids) ==
    IF entries = <<>> THEN acc
    ELSE ScanThumbnails(ScanThumbnail(acc, Head(entries), db_uuids), Tail(entries),
                        db_uuids)

find_unexpected_items(db_uuids, up, th) ==
    ScanThumbnails(ScanUploads(NoBuckets, listdir(up), db_uuids), listdir(th), db_uuids)

\* ---------------------------------------------------------------- cleanup_unexpected_items
\* Largest number of items in one cleanup call.
MaxItems == 2

FolderPath(folder) == IF folder = "uploads" THEN UPLOAD_FOLDER ELSE THUMBNAIL_FOLDER

\* The path of an entry of a managed folder.
EntryAt(root, e) == [path |-> join(root, NameOf(e)), kind |-> e.kind]

\* The files and directories of the disk: fs is [uploads, thumbs, around].
Tree(fs) ==
    {EntryAt(UPLOAD_FOLDER, e) : e \in fs.uploads}
        \cup {EntryAt(THUMBNAIL_FOLDER, e) : e \in fs.thumbs} \cup fs.around

Fs == [uploads |-> uploads, thumbs |-> thumbs, around |-> around]

\* os.path.isfile / os.path.isdir of a path
path_isfile(fs, path) == FileAt(path) \in Tree(fs)
path_isdir(fs, path) == DirAt(path) \in Tree(fs)

\* path is q or lies below the directory q
Under(path, q) == path = q \/ startswith(path, q \o <<"/">>)

\* os.remove(path)
os_remove(fs, path) ==
    [uploads |-> {e \in fs.uploads : EntryAt(UPLOAD_FOLDER, e).path # path},
     thumbs |-> {e \in fs.thumbs : EntryAt(THUMBNAIL_FOLDER, e).path # path},
     around |-> {o \in fs.around : o.path # path}]

\* shutil.rmtree(path): the directory and everything below it
rmtree(fs, path) ==
    [uploads |-> {e \in fs.uploads : ~Under(EntryAt(UPLOAD_FOLDER, e).path, path)},
     thumbs |-> {e \in fs.thumbs : ~Under(EntryAt(THUMBNAIL_FOLDER, e).path, path)},
     around |-> {o \in fs.around : ~Under(o.path, path)}]

\* The guard of the loop: the item's path does not begin with the folder's path.
OutsideFolder(item_path, base_path) == ~startswith(item_path, abspath(base_path))

\* The path the loop resolves an item to.
ItemPath(item) == abspath(join(FolderPath(item.folder), item.name))

\* One turn of the loop; oserror: the deletions of this call raise OSError.
CleanOne(st, item, oserror) ==
    LET base_path == FolderPath(item.folder)
        item_path == ItemPath(item)
    IN  IF OutsideFolder(item_path, base_path)
        THEN [st EXCEPT !.error_count = @ + 1, !.refused = Append(@, item)]
        ELSE IF path_isfile(st.fs, item_path)
        THEN IF oserror THEN [st EXCEPT !.error_count = @ + 1]
             ELSE [st EXCEPT !.fs = os_remove(@, item_path), !.deleted_files = @ + 1]
        ELSE IF path_isdir(st.fs, item_path)
        THEN IF oserror THEN [st EXCEPT !.error_count = @ + 1]
             ELSE [st EXCEPT !.fs = rmtree(@, item_path), !.deleted_dirs = @ + 1]
        ELSE st

RECURSIVE CleanAll(_, _, _)
CleanAll(st, items, oserror) ==
    IF items = <<>> THEN st
    ELSE CleanAll(CleanOne(st, Head(items), oserror), Tail(items), oserror)

cleanup_unexpected_items(fs, items_to_delete, oserror) ==
    CleanAll([fs |-> fs, deleted_files |-> 0, deleted_dirs |-> 0, error_count |-> 0,
              refused |-> <<>>], items_to_delete, oserror)

\* ---------------------------------------------------------------- reconciliation
\* Somebody puts a file or a directory into a managed folder.
PutStray(folder, e) ==
    /\ Cardinality(uploads \cap Strays) + Cardinality(thumbs \cap Strays) < MaxStrays
    /\ path_isdir(Fs, FolderPath(folder))
    /\ \A x \in (IF folder = "uploads" THEN uploads ELSE thumbs) : NameOf(x) # NameOf(e)
    /\ uploads' = IF folder = "uploads" THEN uploads \cup {e} ELSE uploads
    /\ thumbs' = IF folder = "thumbnails" THEN thumbs \cup {e} ELSE thumbs
    /\ last' = [op |-> "out_of_band"]
    /\ UNCHANGED <<schema, settings, media, around, calls, nextUuid, clock, importTs, tz,
                   driver, polled>>

\* Somebody removes an entry of a managed folder.
LoseEntry(folder, e) ==
    /\ e \in (IF folder = "uploads" THEN uploads ELSE thumbs)
    /\ uploads' = IF folder = "uploads" THEN uploads \ {e} ELSE uploads
    /\ thumbs' = IF folder = "thumbnails" THEN thumbs \ {e} ELSE thumbs
    /\ last' = [op |-> "out_of_band"]
    /\ UNCHANGED <<schema, settings, media, around, calls, nextUuid, clock, importTs, tz,
                   driver, polled>>

\* GET /config/media: get_database_media(), find_missing_media_files(all_media),
\* find_unexpected_items(db_uuids), then reads of three settings for the page.
Reconcile(f) ==
    \E m \in {get_database_media(Db, importTs, f)} :
        /\ m.db.clock <= MaxMediaClock
        /\ Apply(m.db)
        /\ last' = [op |-> "reconcile", f |-> f,
                    records |-> m.result.all_media,
                    db_uuids |-> m.result.db_uuids,
                    missing |-> find_missing_media_files(m.result.all_media, uploads, thumbs),
                    found |-> find_unexpected_items(m.result.db_uuids, uploads, thumbs)]
        /\ UNCHANGED <<uploads, thumbs, nextUuid, importTs, polled>>

\* The uploads that fill the catalog for a reconciliation.
ReconcileUploads == {<<Upload("mp4", "playable", "ok")>>, <<Upload("gif", "animated", "ok")>>}

Folders == {"uploads", "thumbnails"}

NextReconcile ==
    \/ \E files \in ReconcileUploads : RegisterMedia(files, NoFault)
    \/ \E folder \in Folders, e \in Strays : PutStray(folder, e)
    \/ \E folder \in Folders, e \in uploads \cup thumbs : LoseEntry(folder, e)
    \/ \E f \in Faults(Db) : Reconcile(f)

SpecReconcile == InitCatalog /\ [][NextReconcile]_vars

\* ---------------------------------------------------------------- validator calls
\* is_web_friendly_video on a file with the given streams.
ValidateVideo(streams) ==
    /\ last' = [op |-> "validate", streams |-> streams,
                result |-> validate_web_playable(streams)]
    /\ UNCHANGED <<schema, settings, media, uploads, thumbs, around, calls, nextUuid,
                   clock, importTs, tz, driver, polled>>

NextProbe == \E streams \in Batches(ProbedStreams, MaxStreams) : ValidateVideo(streams)

SpecProbe == InitCatalog /\ [][NextProbe]_vars

\* ---------------------------------------------------------------- cleanup calls
\* What can lie beside the managed folders, parents before their contents.
Beside ==
    << DirAt(join(BASE_DIR, <<"uploads", "_old">>)),
       FileAt(join(BASE_DIR, <<"uploads", "_old", "/", "keep", ".", "jpg">>)) >>

\* Somebody puts a file or a directory beside the managed folders.
PutBeside(i) ==
    /\ Beside[i] \notin around
    /\ \A j \in 1..(i - 1) : Under(Beside[i].path, Beside[j].path) => Beside[j] \in around
    /\ around' = around \cup {Beside[i]}
    /\ last' = [op |-> "out_of_band"]
    /\ UNCHANGED <<schema, settings, media, uploads, thumbs, calls, nextUuid, clock,
                   importTs, tz, driver, polled>>

\* What is put into a managed folder before a cleanup.
CleanupStrays == {FileName(-3, "txt"), DirName(-3, "")}

\* Names a caller gives: relative to the folder, with '..' segments, absolute, empty,
\* '.'.
GivenNames ==
    {NameOf(e) : e \in CleanupStrays}
        \cup {<<>>,
              <<".">>,
              <<".", ".", "/", "uploads", "_old">>,
              <<".", ".", "/", "uploads", "_old", "/", "keep", ".", "jpg">>,
              <<".", ".", "/", "app", ".", "db">>,
              <<"notes", "/", ".", ".", "/", "notes", ".", "txt">>,
              <<"/", "srv", "/", "showgo", "/", "app", ".", "db">>}

GivenItems == [folder : Folders, name : GivenNames]

\* The items of the longer lists.
PairedItems ==
    {[folder |-> "uploads", name |-> NameOf(FileName(-3, "txt"))],
     [folder |-> "uploads", name |-> <<".", ".", "/", "uploads", "_old", "/", "keep", ".", "jpg">>],
     [folder |-> "thumbnails", name |-> <<".", ".", "/", "app", ".", "db">>]}

GivenLists == Batches(GivenItems, 1) \cup Batches(PairedItems, MaxItems)

\* cleanup_unexpected_items(items_to_delete)
CleanupUnexpected(items, oserror) ==
    \E r \in {cleanup_unexpected_items(Fs, items, oserror)} :
        /\ uploads' = r.fs.uploads
        /\ thumbs' = r.fs.thumbs
        /\ around' = r.fs.around
        /\ last' = [op |-> "cleanup", items |-> items, oserror |-> oserror,
                    deleted |-> Tree(Fs) \ Tree(r.fs),
                    refused |-> r.refused,
                    result |-> <<r.deleted_files, r.deleted_dirs, r.error_count>>]
        /\ UNCHANGED <<schema, settings, media, calls, nextUuid, clock, importTs, tz,
                       driver, polled>>

NextCleanup ==
    \/ \E folder \in Folders, e \in CleanupStrays : PutStray(folder, e)
    \/ \E i \in DOMAIN Beside : PutBeside(i)
    \/ \E items \in GivenLists, oserror \in BOOLEAN :
            CleanupUnexpected(items, oserror)

SpecCleanup == InitCatalog /\ [][NextCleanup]_vars

\* ---------------------------------------------------------------- cleanup route
\* cleanup_unexpected_items_route on database d and disk fs: get_database_media(),
\* find_unexpected_items(db_uuids), the three lists one after another given to
\* cleanup_unexpected_items when there is an item in them.
cleanup_unexpected_items_route(d, ts, fs, f) ==
    LET m == get_database_media(d, ts, f)
        found == find_unexpected_items(m.result.db_uuids, fs.uploads, fs.thumbs)
        items_to_delete == found.orphaned_uuid_files \o found.unexpected_files
                               \o found.unexpected_dirs
    IN  [db |-> m.db, db_uuids |-> m.result.db_uuids, items |-> items_to_delete,
         fs |-> IF items_to_delete = <<>> THEN fs
                ELSE cleanup_unexpected_items(fs, items_to_delete, FALSE).fs]

\* POST /config/cleanup/unexpected-items
CleanupRoute(f) ==
    \E r \in {cleanup_unexpected_items_route(Db, importTs, Fs, f)} :
        /\ r.db.clock <= MaxMediaClock
        /\ schema' = r.db.schema
        /\ settings' = r.db.settings
        /\ media' = r.db.media
        /\ clock' = r.db.clock
        /\ uploads' = r.fs.uploads
        /\ thumbs' = r.fs.thumbs
        /\ around' = r.fs.around
        /\ last' = [op |-> "cleanup_route", f |-> f, pre |-> Db, db_uuids |-> r.db_uuids,
                    items |-> r.items, uploads0 |-> uploads, thumbs0 |-> thumbs]
        /\ UNCHANGED <<calls, nextUuid, importTs, tz, driver, polled>>

\* What is put into a managed folder before the route runs.
RouteStrays ==
    {FileName(ForeignToken, "jpg"), FileName(-3, "txt"), FileName(1, "jpg"), DirName(-3, "")}

NextRoute ==
    \/ \E files \in ReconcileUploads : RegisterMedia(files, NoFault)
    \/ \E folder \in Folders, e \in RouteStrays : PutStray(folder, e)
    \/ \E f \in Faults(Db) : CleanupRoute(f)

SpecRoute == InitCatalog /\ [][NextRoute]_vars

\* ---------------------------------------------------------------- reconciliation passes
\* find_missing_media_files(db_media) on the rows of the catalog: isfile of each
\* row's original.
FindMissing ==
    /\ last' = [op |-> "find_missing", records |-> AllMedia(media),
                missing |-> find_missing_media_files(AllMedia(media), uploads, thumbs)]
    /\ UNCHANGED <<schema, settings, media, uploads, thumbs, around, calls, nextUuid,
                   clock, importTs, tz, driver, polled>>

\* find_unexpected_items followed by the deletion of what it lists.
FindUnexpected_cleaning(db_uuids) ==
    \E found \in {find_unexpected_items(db_uuids, uploads, thumbs)} :
    \E r \in {cleanup_unexpected_items(Fs, found.orphaned_uuid_files \o found.unexpected_files
                                               \o found.unexpected_dirs, FALSE)} :
        /\ uploads' = r.fs.uploads
        /\ thumbs' = r.fs.thumbs
        /\ around' = r.fs.around
        /\ last' = [op |-> "find_unexpected", db_uuids |-> db_uuids, found |-> found]
        /\ UNCHANGED <<schema, settings, media, calls, nextUuid, clock, importTs, tz,
                       driver, polled>>

\* find_unexpected_items(db_uuids): isdir and listdir of both folders, isdir and
\* isfile of each entry.
FindUnexpected(db_uuids) ==
    /\ last' = [op |-> "find_unexpected", db_uuids |-> db_uuids,
                found |-> find_unexpected_items(db_uuids, uploads, thumbs)]
    /\ UNCHANGED <<schema, settings, media, uploads, thumbs, around, calls, nextUuid,
                   clock, importTs, tz, driver, polled>>

\* The passes on every catalog and every content of the folders, for every set
\* of content-ids a caller passes.
ScanStrays == {FileName(ForeignToken, "jpg"), FileName(-3, "txt")}

NextScan ==
    \/ \E files \in ReconcileUploads : RegisterMedia(files, NoFault)
    \/ \E folder \in Folders, e \in ScanStrays : PutStray(folder, e)
    \/ \E folder \in Folders, e \in uploads \cup thumbs : LoseEntry(folder, e)
    \/ FindMissing
    \/ \E db_uuids \in SUBSET (1..MaxUuid) : FindUnexpected(db_uuids)

SpecScan == InitCatalog /\ [][NextScan]_vars

\* ---------------------------------------------------------------- password
\* The passwords a form posts.
Passwords == {"", DefaultPassword, "s3cret"}

\* config_set_initial_password, POST: nothing is saved when the flag is read as
\* set, when a field is empty, when the two fields differ, or for the default
\* password; otherwise save_setting of the new hash, then of the flag.
config_set_initial_password(d, ts, new_password, confirm_password) ==
    LET flag == get_setting(d, ts, "auth_password_changed", Bool(FALSE), NoFault)
        new_hash == generate_password_hash(new_password, flag.db.clock + 1)
        saved_hash == save_setting(flag.db, ts, "auth_password_hash", new_hash, NoFault)
        saved_flag == save_setting(saved_hash.db, ts, "auth_password_changed", Bool(TRUE),
                                   NoFault)
    IN  IF PyEq(flag.result, Bool(TRUE)) THEN [db |-> flag.db, result |-> FALSE]
        ELSE IF new_password = "" \/ confirm_password = "" THEN [db |-> flag.db, result |-> FALSE]
        ELSE IF new_password # confirm_password THEN [db |-> flag.db, result |-> FALSE]
        ELSE IF new_password = DefaultPassword THEN [db |-> flag.db, result |-> FALSE]
        ELSE [db |-> saved_flag.db, result |-> saved_hash.result /\ saved_flag.result]

\* POST /config/set-initial-password
SetInitialPassword(new_password, confirm_password) ==
    \E r \in {config_set_initial_password(Db, importTs, new_password, confirm_password)} :
        /\ r.db.clock <= MaxClock
        /\ Apply(r.db)
        /\ last' = [op |-> "set_initial_password", password |-> new_password,
                    result |-> r.result]
        /\ UNCHANGED <<uploads, thumbs, nextUuid, importTs, polled>>

\* The password is set, saved and read, and the application is started again.
NextAuth ==
    \/ \E p, c \in Passwords : SetInitialPassword(p, c)
    \/ \E kv \in SetInputs : Set(kv, NoFault)
    \/ \E kd \in GetInputs : Get(kd, NoFault)
    \/ \E boot \in BootOutcomes : CreateApp(boot, NoFault)

SpecAuth == InitCatalog /\ [][NextAuth]_vars

\* ---------------------------------------------------------------- steps of concurrent calls
Done(c, result, stamp) ==
    [c EXCEPT !.pc = "done", !.result = result, !.stamp = stamp,
              !.after = {x \in Workers : calls[x].pc = "done"}]

InFlight(x) == calls[x].pc \notin {"idle", "done"}

\* Worker w starts call c: it is no longer the call that finished before another
\* or ran during it, and it runs during the calls now in flight.
Start(w, c) ==
    [x \in Workers |->
        IF x = w THEN [c EXCEPT !.during = {y \in Workers \ {w} : InFlight(y)}]
        ELSE [calls[x] EXCEPT !.after = @ \ {w},
                              !.during = IF InFlight(x) THEN @ \cup {w} ELSE @ \ {w}]]

\* The values two callers save at the same time: the stored flag, the other flag,
\* and a key without a row.
SaveInputs ==
    {<<"overlay_enabled", Bool(FALSE)>>, <<"overlay_enabled", Bool(TRUE)>>,
     <<"max_resolution", Str(2)>>}

\* save_setting, first statement: setting = db.session.get(Setting, key). On
\* missing tables the shipped driver raises OperationalError: return False.
SaveGet(w, kv) ==
    /\ calls[w].pc = "idle"
    /\ calls' = Start(w,
          IF ~schema
          THEN Done([Idle EXCEPT !.op = "save", !.key = kv[1], !.value = kv[2]], FALSE, 0)
          ELSE [Idle EXCEPT !.op = "save", !.pc = "loaded", !.key = kv[1], !.value = kv[2],
                            !.had = HasRow(settings, kv[1]),
                            !.loaded = [k \in {kv[1]} \cap DOMAIN settings |-> settings[k]]])
    /\ last' = [op |-> "step"]
    /\ UNCHANGED <<schema, settings, media, uploads, thumbs, around, nextUuid, clock,
                   importTs, tz, driver, polled>>

\* What the commit of a loaded save writes: [rows, ok, stamp]. A loaded row gets
\* an UPDATE when the value is a net change against what the session loaded (no
\* row matched: StaleDataError); a missing row gets an INSERT (a row there by
\* now: IntegrityError). Both errors end in "except Exception": return False.
SaveFlush(s, c, t) ==
    IF c.had
    THEN IF PyEq(c.value, c.loaded[c.key].value) THEN [rows |-> s, ok |-> TRUE, stamp |-> 0]
         ELSE IF HasRow(s, c.key)
         THEN [rows |-> PutRow(s, c.key, c.value, t), ok |-> TRUE, stamp |-> t]
         ELSE [rows |-> s, ok |-> FALSE, stamp |-> 0]
    ELSE IF HasRow(s, c.key) THEN [rows |-> s, ok |-> FALSE, stamp |-> 0]
         ELSE [rows |-> PutRow(s, c.key, c.value, t), ok |-> TRUE, stamp |-> t]

\* save_setting, the assignment or add and db.session.commit()
SaveCommit(w) ==
    /\ calls[w].op = "save" /\ calls[w].pc = "loaded"
    /\ \E r \in {SaveFlush(settings, calls[w], clock + 1)} :
          /\ settings' = r.rows
          /\ clock' = IF r.stamp = 0 THEN clock ELSE clock + 1
          /\ clock' <= MaxClock
          /\ calls' = [calls EXCEPT ![w] = Done(@, r.ok, r.stamp)]
    /\ last' = [op |-> "step"]
    /\ UNCHANGED <<schema, media, uploads, thumbs, around, nextUuid, importTs, tz, driver,
                   polled>>

\* The call returns; the worker takes the next request.
Return(w) ==
    /\ calls[w].pc = "done"
    /\ calls' = [calls EXCEPT ![w] = Idle]
    /\ last' = [op |-> "step"]
    /\ UNCHANGED <<schema, settings, media, uploads, thumbs, around, nextUuid, clock,
                   importTs, tz, driver, polled>>

\* initialize_database, db.create_all(): the check for the tables.
BootCheck(w) ==
    /\ calls[w].pc = "idle"
    /\ calls' = Start(w, [Idle EXCEPT !.op = "boot", !.pc = "checked", !.had = schema])
    /\ last' = [op |-> "step"]
    /\ UNCHANGED <<schema, settings, media, uploads, thumbs, around, nextUuid, clock,
                   importTs, tz, driver, polled>>

\* db.create_all(): CREATE TABLE for the tables the check did not find. When
\* another process created them since, the statement raises OperationalError and
\* initialize_database returns False.
BootCreate(w) ==
    /\ calls[w].op = "boot" /\ calls[w].pc = "checked"
    /\ IF calls[w].had
       THEN calls' = [calls EXCEPT ![w].pc = "created"] /\ schema' = schema
       ELSE IF schema
       THEN calls' = [calls EXCEPT ![w] = Done(@, FALSE, 0)] /\ schema' = schema
       ELSE calls' = [calls EXCEPT ![w].pc = "created"] /\ schema' = TRUE
    /\ last' = [op |-> "step"]
    /\ UNCHANGED <<settings, media, uploads, thumbs, around, nextUuid, clock, importTs, tz,
                   driver, polled>>

\* The loop of db.session.merge: the rows it loads for the default keys.
BootMerge(w) ==
    /\ calls[w].op = "boot" /\ calls[w].pc = "created"
    /\ calls' = [calls EXCEPT ![w].pc = "merged",
                              ![w].loaded = [k \in DefaultKeys \cap DOMAIN settings |->
                                                settings[k]]]
    /\ last' = [op |-> "step"]
    /\ UNCHANGED <<schema, settings, media, uploads, thumbs, around, nextUuid, clock,
                   importTs, tz, driver, polled>>

\* What the commit of the merges writes at reading t: an INSERT for each default
\* key the session found no row for, an UPDATE for each loaded row whose value
\* the default changes. An INSERT of a key that has a row by now raises
\* IntegrityError: the whole commit is rolled back.
MergeFlush(s, loaded, defs, t) ==
    LET inserts == {k \in DOMAIN defs : ~HasRow(loaded, k)}
        updates == {k \in DOMAIN defs : HasRow(loaded, k) /\ ~PyEq(defs[k], loaded[k].value)}
    IN  IF \E k \in inserts : HasRow(s, k)
        THEN [rows |-> s, conflict |-> TRUE, stamp |-> 0]
        ELSE IF inserts \cup updates = {}
        THEN [rows |-> s, conflict |-> FALSE, stamp |-> 0]
        ELSE [rows |-> [k \in DOMAIN s \cup inserts |->
                           IF k \in inserts \cup updates THEN Row(defs[k], t) ELSE s[k]],
              conflict |-> FALSE, stamp |-> t]

\* db.session.commit() of the merges; "except IntegrityError" rolls back and goes on.
BootCommit(w) ==
    /\ calls[w].op = "boot" /\ calls[w].pc = "merged"
    /\ \E r \in {MergeFlush(settings, calls[w].loaded, DEFAULT_SETTINGS_DB(importTs),
                            clock + 1)} :
          /\ settings' = r.rows
          /\ clock' = IF r.stamp = 0 THEN clock ELSE clock + 1
          /\ clock' <= MaxClock
          /\ calls' = [calls EXCEPT ![w].pc = "defaults", ![w].stamp = r.stamp,
                                    ![w].conflict = r.conflict]
    /\ last' = [op |-> "step"]
    /\ UNCHANGED <<schema, media, uploads, thumbs, around, nextUuid, importTs, tz, driver,
                   polled>>

\* old_api_key_setting = db.session.get(Setting, 'widgets_weather_api_key')
BootPruneGet(w) ==
    /\ calls[w].op = "boot" /\ calls[w].pc = "defaults"
    /\ calls' = [calls EXCEPT ![w] = IF HasRow(settings, DeprecatedKey)
                                     THEN [@ EXCEPT !.pc = "pruning"]
                                     ELSE Done(@, TRUE, @.stamp)]
    /\ last' = [op |-> "step"]
    /\ UNCHANGED <<schema, settings, media, uploads, thumbs, around, nextUuid, clock,
                   importTs, tz, driver, polled>>

\* db.session.delete(old_api_key_setting); db.session.commit(); return True
BootPrune(w) ==
    /\ calls[w].op = "boot" /\ calls[w].pc = "pruning"
    /\ settings' = Prune(settings)
    /\ calls' = [calls EXCEPT ![w] = Done([@ EXCEPT !.pruned = TRUE], TRUE, @.stamp)]
    /\ last' = [op |-> "step"]
    /\ UNCHANGED <<schema, media, uploads, thumbs, around, nextUuid, clock, importTs, tz,
                   driver, polled>>

\* Saves and bootstraps of two workers, step by step.
WorkerSaves == SaveInputs \cup {<<DeprecatedKey, Str(1)>>}

NextWorkers ==
    \E w \in Workers :
        \/ \E kv \in WorkerSaves : SaveGet(w, kv)
        \/ SaveCommit(w)
        \/ BootCheck(w)
        \/ BootCreate(w)
        \/ BootMerge(w)
        \/ BootCommit(w)
        \/ BootPruneGet(w)
        \/ BootPrune(w)
        \/ Return(w)

SpecWorkers == InitCatalog /\ [][NextWorkers]_vars

\* ---------------------------------------------------------------- upload and cleanup, step by step
\* upload_media for one playable MP4: uuid4() and file.save.
UploadSave(w) ==
    /\ calls[w].pc = "idle"
    /\ nextUuid <= MaxUuid
    /\ uploads' = uploads \cup {FileName(nextUuid, "mp4")}
    /\ nextUuid' = nextUuid + 1
    /\ calls' = [calls EXCEPT ![w] = [op |-> "upload", pc |-> "saved", uuid |-> nextUuid,
                                      result |-> FALSE]]
    /\ last' = [op |-> "step"]
    /\ UNCHANGED <<schema, settings, media, thumbs, around, clock, importTs, tz, driver,
                   polled>>

\* is_web_friendly_video on the saved file, then generate_thumbnail: a file that
\* is no longer there is rejected.
UploadProcess(w) ==
    /\ calls[w].op = "upload" /\ calls[w].pc = "saved"
    /\ IF FileName(calls[w].uuid, "mp4") \in uploads
       THEN /\ thumbs' = thumbs \cup {FileName(calls[w].uuid, THUMBNAIL_EXT)}
            /\ calls' = [calls EXCEPT ![w].pc = "processed"]
       ELSE /\ thumbs' = thumbs
            /\ calls' = [calls EXCEPT ![w].pc = "done"]
    /\ last' = [op |-> "step"]
    /\ UNCHANGED <<schema, settings, media, uploads, around, nextUuid, clock, importTs, tz,
                   driver, polled>>

\* db.session.add(new_media); db.session.commit(), and _touch_media_timestamp()
\* at the end of the request. A commit that raises removes the original.
UploadCommit(w) ==
    /\ calls[w].op = "upload" /\ calls[w].pc = "processed"
    /\ IF schema
       THEN \E row \in {MediaFile(NewId(media), calls[w].uuid, "mp4", "video")} :
            \E t \in {touch_media_timestamp([Db EXCEPT !.media = @ \cup {row}], importTs,
                                            NoFault)} :
               /\ t.db.clock <= MaxMediaClock
               /\ media' = t.db.media
               /\ settings' = t.db.settings
               /\ clock' = t.db.clock
               /\ uploads' = uploads
               /\ calls' = [calls EXCEPT ![w].pc = "done", ![w].result = TRUE]
       ELSE /\ uploads' = uploads \ {FileName(calls[w].uuid, "mp4")}
            /\ calls' = [calls EXCEPT ![w].pc = "done"]
            /\ UNCHANGED <<media, settings, clock>>
    /\ last' = [op |-> "step"]
    /\ UNCHANGED <<schema, thumbs, around, nextUuid, importTs, tz, driver, polled>>

\* cleanup_unexpected_items_route: get_database_media() and
\* find_unexpected_items(db_uuids).
CleanScan(w) ==
    /\ calls[w].pc = "idle"
    /\ \E m \in {get_database_media(Db, importTs, NoFault)} :
       \E found \in {find_unexpected_items(m.result.db_uuids, uploads, thumbs)} :
          calls' = [calls EXCEPT ![w] =
                      [op |-> "cleanup", pc |-> "scanned",
                       items |-> found.orphaned_uuid_files \o found.unexpected_files
                                     \o found.unexpected_dirs,
                       deleted |-> {}]]
    /\ last' = [op |-> "step"]
    /\ UNCHANGED <<schema, settings, media, uploads, thumbs, around, nextUuid, clock,
                   importTs, tz, driver, polled>>

\* cleanup_unexpected_items(items_to_delete) on what the scan listed.
CleanDelete(w) ==
    /\ calls[w].op = "cleanup" /\ calls[w].pc = "scanned"
    /\ \E r \in {IF calls[w].items = <<>> THEN [fs |-> Fs]
                 ELSE cleanup_unexpected_items(Fs, calls[w].items, FALSE)} :
          /\ uploads' = r.fs.uploads
          /\ thumbs' = r.fs.thumbs
          /\ around' = r.fs.around
          /\ calls' = [calls EXCEPT ![w].pc = "done",
                                    ![w].deleted = (uploads \ r.fs.uploads)]
    /\ last' = [op |-> "step"]
    /\ UNCHANGED <<schema, settings, media, nextUuid, clock, importTs, tz, driver, polled>>

NextRace ==
    \E w \in Workers :
        \/ UploadSave(w)
        \/ UploadProcess(w)
        \/ UploadCommit(w)
        \/ CleanScan(w)
        \/ CleanDelete(w)
        \/ Return(w)

SpecRace == InitCatalog /\ [][NextRace]_vars

\* ---------------------------------------------------------------- overlay logo
\* _touch_config_timestamp(): current_value = get_setting('overlay_enabled', False);
\* save_setting('overlay_enabled', current_value).
touch_config_timestamp(d, ts, f) ==
    LET current_value == get_setting(d, ts, "overlay_enabled", Bool(FALSE), f)
    IN  save_setting(current_value.db, ts, "overlay_enabled", current_value.result, f)

\* upload_overlay_logo with a PNG: file.save(save_path), then
\* _touch_config_timestamp(); a save that raises skips the touch.
UploadOverlayLogo(saved) ==
    \E r \in {IF saved THEN touch_config_timestamp(Db, importTs, NoFault)
              ELSE [db |-> Db, result |-> FALSE, info |-> NoBoot]} :
        /\ r.db.clock <= MaxClock
        /\ Apply(r.db)
        /\ last' = [op |-> "upload_overlay_logo", saved |-> saved,
                    before |-> LastChanged(Db)]
        /\ UNCHANGED <<uploads, thumbs, nextUuid, importTs, polled>>

NextOverlay ==
    \/ \E kv \in SetInputs : Set(kv, NoFault)
    \/ TouchMedia(NoFault)
    \/ \E saved \in BOOLEAN : UploadOverlayLogo(saved)

SpecOverlay == InitCatalog /\ [][NextOverlay]_vars

\* ---------------------------------------------------------------- video settings
\* Largest clock reading in the runs of the video-settings saves.
MaxVideoClock == 7

\* The two routes that save the video playback settings.
VideoRoutes == {"update_video_settings", "config_general"}

\* The form fields video_duration_limit_enabled, video_duration_limit_seconds and
\* video_random_start_enabled; the form carries no other field.
VideoForms == [enabled : BOOLEAN, seconds : {0, 30, 4000}, random : BOOLEAN]

\* "Validate duration limit": below 1 is 1, above 3600 is 3600.
ClampSeconds(n) == IF n < 1 THEN 1 ELSE IF n > 3600 THEN 3600 ELSE n

\* The database variables take the values of d.
Store(d) ==
    /\ schema' = d.schema
    /\ settings' = d.settings
    /\ media' = d.media
    /\ clock' = d.clock
    /\ tz' = d.tz
    /\ driver' = d.driver

\* The request reads and validates its form; config_general has saved the
\* slideshow settings before it (duration_seconds absent: the default).
VideoParse(w, route, form) ==
    /\ calls[w].pc = "idle"
    /\ \E d \in {IF route = "config_general"
                 THEN save_setting(Db, importTs, "slideshow_duration_seconds",
                                   DEFAULT_SETTINGS_DB(importTs)["slideshow_duration_seconds"],
                                   NoFault).db
                 ELSE Db} :
          /\ d.clock <= MaxVideoClock
          /\ Store(d)
    /\ calls' = [calls EXCEPT ![w] =
                    [op |-> "video_settings", pc |-> "parsed", route |-> route,
                     duration_limit_enabled |-> form.enabled,
                     duration_limit_seconds |-> ClampSeconds(form.seconds),
                     random_start_enabled |-> form.enabled /\ form.random]]
    /\ last' = [op |-> "step"]
    /\ UNCHANGED <<uploads, thumbs, around, nextUuid, importTs, polled>>

\* save_setting('slideshow_video_duration_limit_enabled', duration_limit_enabled)
VideoSaveEnabled(w) ==
    /\ calls[w].op = "video_settings" /\ calls[w].pc = "parsed"
    /\ \E r \in {save_setting(Db, importTs, "slideshow_video_duration_limit_enabled",
                              Bool(calls[w].duration_limit_enabled), NoFault)} :
          /\ r.db.clock <= MaxVideoClock
          /\ Store(r.db)
    /\ calls' = [calls EXCEPT ![w].pc = "enabled_saved"]
    /\ last' = [op |-> "step"]
    /\ UNCHANGED <<uploads, thumbs, around, nextUuid, importTs, polled>>

\* save_setting('slideshow_video_duration_limit_seconds', duration_limit_seconds)
VideoSaveSeconds(w) ==
    /\ calls[w].op = "video_settings" /\ calls[w].pc = "enabled_saved"
    /\ \E r \in {save_setting(Db, importTs, "slideshow_video_duration_limit_seconds",
                              Num(calls[w].duration_limit_seconds), NoFault)} :
          /\ r.db.clock <= MaxVideoClock
          /\ Store(r.db)
    /\ calls' = [calls EXCEPT ![w].pc = "seconds_saved"]
    /\ last' = [op |-> "step"]
    /\ UNCHANGED <<uploads, thumbs, around, nextUuid, importTs, polled>>

\* save_setting('slideshow_video_random_start_enabled', random_start_enabled) and
\* the rest of the request: _touch_media_timestamp() in update_video_settings,
\* the overlay settings ('overlay_enabled' in request.form) in config_general.
VideoSaveRandom(w) ==
    /\ calls[w].op = "video_settings" /\ calls[w].pc = "seconds_saved"
    /\ \E r \in {save_setting(Db, importTs, "slideshow_video_random_start_enabled",
                              Bool(calls[w].random_start_enabled), NoFault)} :
       \E t \in {IF calls[w].route = "update_video_settings"
                 THEN touch_media_timestamp(r.db, importTs, NoFault)
                 ELSE save_setting(r.db, importTs, "overlay_enabled", Bool(FALSE),
                                   NoFault)} :
          /\ t.db.clock <= MaxVideoClock
          /\ Store(t.db)
    /\ calls' = [calls EXCEPT ![w].pc = "done"]
    /\ last' = [op |-> "step"]
    /\ UNCHANGED <<uploads, thumbs, around, nextUuid, importTs, polled>>

NextVideo ==
    \E w \in Workers :
        \/ \E route \in VideoRoutes, form \in VideoForms : VideoParse(w, route, form)
        \/ VideoSaveEnabled(w)
        \/ VideoSaveSeconds(w)
        \/ VideoSaveRandom(w)
        \/ Return(w)

\* The saves run against a store whose bootstrap has succeeded.
InitVideo == InitCatalog /\ schema

SpecVideo == InitVideo /\ [][NextVideo]_vars

\* ---------------------------------------------------------------- catalog life cycle
\* Register, delete and prune.
LifecycleFaults == {NoMediaFault, [NoMediaFault EXCEPT !.commitFail = TRUE]}

NextLifecycle ==
    \/ \E files \in Batches(UploadFiles, MaxFiles) : RegisterMedia(files, NoFault)
    \/ \E ids \in Batches(IdInputs, MaxBatch), flt \in LifecycleFaults : RemoveMedia(ids, flt)
    \/ \E ids \in Batches(IdInputs, MaxBatch), flt \in LifecycleFaults : PruneMedia(ids, flt)

SpecLifecycle == InitCatalog /\ [][NextLifecycle]_vars

\* ---------------------------------------------------------------- batch uploads
\* Largest number of files in one batch.
MaxUploads == 2

\* The files of a batch: accepted ones, with and without a thumbnail, and
\* rejected ones.
BatchFiles ==
    {Upload("gif", "animated", "ok"), Upload("gif", "animated", "thumb_fail"),
     Upload("mp4", "playable", "ok"), Upload("mp4", "playable", "thumb_fail"),
     Upload("mp4", "playable", "thumb_left"),
     Upload("mp4", "unplayable", "ok"), Upload("exe", "still", "ok"),
     Upload("mp4", "playable", "too_large"), Upload("jpg", "still", "ok")}

NextBatch == \E files \in Batches(BatchFiles, MaxUploads) : RegisterMedia(files, NoFault)

SpecBatch == InitCatalog /\ [][NextBatch]_vars

\* ---------------------------------------------------------------- named uploads
\* Longest generated upload name.
MaxName == 5
NameChars == {"a", " ", ".", "o", "O", "g", "G"}
BeachPhoto == <<"B", "e", "a", "c", "h", " ", "P", "h", "o", "t", "o", ".", "J", "P", "G">>
Names ==
    UNION {[1..n -> NameChars] : n \in 0..MaxName}
        \cup {BeachPhoto, <<"c", "l", "i", "p", ".", "t", "a", "r", ".", "M", "p", "4">>,
              <<"a", "/", ".", "p", "n", "g">>}

\* A name is drawn for the process started on a fresh store.
InitNames ==
    \E name \in Names :
        LET fresh == [schema |-> FALSE, settings |-> EmptyRows, media |-> {},
                      clock |-> 1, tz |-> UTC, driver |-> "sqlite"]
            b == initialize_database(fresh, 1, "ok")
        IN  /\ schema = b.db.schema
            /\ settings = b.db.settings
            /\ media = b.db.media
            /\ nextUuid = 1
            /\ clock = b.db.clock
            /\ importTs = 1
            /\ tz = UTC
            /\ driver = "sqlite"
            /\ uploads = {}
            /\ thumbs = {}
            /\ around = ManagedFolders
            /\ calls = [w \in Workers |-> Idle]
            /\ polled = NoneV
            /\ last = [op |-> "name", filename |-> name]

\* get_media_type(filename)
Classify ==
    /\ last.op = "name"
    /\ last' = [op |-> "classify", filename |-> last.filename,
                result |-> get_media_type_of_name(last.filename)]
    /\ UNCHANGED <<schema, settings, media, nextUuid, clock, importTs, tz, driver,
                   uploads, thumbs, around, calls, polled>>

\* POST /config/upload with one file of the drawn name
RegisterNamed(content) ==
    /\ last.op = "name"
    /\ \E file \in {NamedUpload(last.filename, content)} :
         IF RaisesIndexError(file)
         THEN /\ last' = [op |-> "upload_named", filename |-> file.filename,
                          raised |-> TRUE, added |-> {}, stored |-> {}]
              /\ UNCHANGED <<schema, settings, media, nextUuid, clock, importTs, tz,
                             driver, uploads, thumbs, around, calls, polled>>
         ELSE \E r \in {upload_media(Db, importTs, uploads, thumbs, nextUuid,
                                     <<FileOf(file)>>, NoFault)} :
                /\ Apply(r.db)
                /\ uploads' = r.uploads
                /\ thumbs' = r.thumbs
                /\ nextUuid' = r.uuid
                /\ last' = [op |-> "upload_named", filename |-> file.filename,
                            raised |-> FALSE, added |-> r.db.media \ media,
                            stored |-> r.uploads \ uploads]
                /\ UNCHANGED <<importTs, polled>>

NextNames ==
    \/ Classify
    \/ \E content \in {"animated", "still", "playable"} : RegisterNamed(content)

SpecNames == InitNames /\ [][NextNames]_vars

\* ---------------------------------------------------------------- external tools
\* How ffprobe ends: it exits with status 0 and a duration greater than 0, with a
\* duration that is not ("zero"), it exits with another status, cannot be started
\* or prints what cannot be parsed ("fail"), or it never exits.
ProbeFates == {"ok", "zero", "fail", "hang"}

\* How ffmpeg ends: it exits with status 0, exits with another status ("fail"),
\* cannot be started ("absent": FileNotFoundError), subprocess.run raises another
\* exception once it has run ("error": text=True decodes what the tool printed,
\* UnicodeDecodeError on bytes that are not text), or it never exits.
ExtractFates == {"ok", "fail", "absent", "error", "hang"}

\* upload_media for a video: file.save puts the original into the upload folder
\* under a new content-id, then generate_thumbnail(source, dest, size, 'video')
\* is called: _get_video_duration starts ffprobe with subprocess.run and waits.
ThumbStart(w, probe, extract) ==
    /\ calls[w].pc = "idle"
    /\ nextUuid <= MaxUuid
    /\ uploads' = uploads \cup {FileName(nextUuid, "mp4")}
    /\ nextUuid' = nextUuid + 1
    /\ calls' = [calls EXCEPT ![w] = [op |-> "thumbnail", pc |-> "probing",
                                      dest |-> nextUuid, probe |-> probe,
                                      extract |-> extract, started |-> FALSE,
                                      result |-> FALSE]]
    /\ last' = [op |-> "step"]
    /\ UNCHANGED <<schema, settings, media, thumbs, around, clock, importTs, tz, driver,
                   polled>>

\* ffprobe exits: with a duration greater than 0, ffmpeg is started and waited
\* for (not found: (False, None)); without one generate_thumbnail returns
\* (False, None).
ProbeExit(w) ==
    /\ calls[w].op = "thumbnail" /\ calls[w].pc = "probing"
    /\ calls[w].probe # "hang"
    /\ calls' = [calls EXCEPT ![w] = IF @.probe # "ok" THEN [@ EXCEPT !.pc = "done"]
                                     ELSE IF @.extract = "absent"
                                     THEN [@ EXCEPT !.pc = "done"]
                                     ELSE [@ EXCEPT !.pc = "extracting",
                                                    !.started = TRUE]]
    /\ last' = [op |-> "step"]
    /\ UNCHANGED <<schema, settings, media, uploads, thumbs, around, nextUuid, clock,
                   importTs, tz, driver, polled>>

\* ffmpeg writes (part of) the destination file.
ExtractWrite(w) ==
    /\ calls[w].op = "thumbnail" /\ calls[w].pc = "extracting"
    /\ FileName(calls[w].dest, THUMBNAIL_EXT) \notin thumbs
    /\ thumbs' = thumbs \cup {FileName(calls[w].dest, THUMBNAIL_EXT)}
    /\ last' = [op |-> "step"]
    /\ UNCHANGED <<schema, settings, media, uploads, around, calls, nextUuid, clock,
                   importTs, tz, driver, polled>>

\* ffmpeg exits: status 0 with the file written gives (True, dest); on
\* CalledProcessError the destination is removed if it exists: (False, None);
\* "except Exception" returns (False, None) and removes nothing.
ExtractExit(w) ==
    /\ calls[w].op = "thumbnail" /\ calls[w].pc = "extracting"
    /\ \/ /\ calls[w].extract = "ok"
          /\ FileName(calls[w].dest, THUMBNAIL_EXT) \in thumbs
          /\ thumbs' = thumbs
          /\ calls' = [calls EXCEPT ![w].pc = "done", ![w].result = TRUE]
       \/ /\ calls[w].extract = "fail"
          /\ thumbs' = thumbs \ {FileName(calls[w].dest, THUMBNAIL_EXT)}
          /\ calls' = [calls EXCEPT ![w].pc = "done"]
       \/ /\ calls[w].extract = "error"
          /\ thumbs' = thumbs
          /\ calls' = [calls EXCEPT ![w].pc = "done"]
    /\ last' = [op |-> "step"]
    /\ UNCHANGED <<schema, settings, media, uploads, around, nextUuid, clock, importTs, tz,
                   driver, polled>>

\* What a worker in generate_thumbnail does next.
ToolSteps(w) == ProbeExit(w) \/ ExtractWrite(w) \/ ExtractExit(w) \/ Return(w)

NextTools ==
    \/ \E w \in Workers, probe \in ProbeFates, extract \in ExtractFates :
          ThumbStart(w, probe, extract)
    \/ \E w \in Workers : ProbeExit(w)
    \/ \E w \in Workers : ExtractWrite(w)
    \/ \E w \in Workers : ExtractExit(w)
    \/ \E w \in Workers : Return(w)

SpecTools == InitCatalog /\ [][NextTools]_vars

\* A worker that can take a step of generate_thumbnail takes it.
LiveTools == SpecTools /\ \A w \in Workers : WF_vars(ToolSteps(w))

\* ================================================================ claims
Defaults == DEFAULT_SETTINGS_DB(importTs)

\* The handler ran initialize_database() and its last run returned True.
BootSucceeded == last.info.boots > 0 /\ last.info.bootOk

\* C1 (as claimed): after initialize_database() succeeds, every settings key that had
\* a row before the call (other than the deprecated key, which it removes) still holds
\* the value it held, and a default key has the default value only if it had no row.
C1_BootstrapKeepsExistingValues ==
    BootSucceeded =>
        \A k \in DOMAIN last.info.bootPre \ {DeprecatedKey} :
            /\ HasRow(last.info.bootPost, k)
            /\ last.info.bootPost[k].value = last.info.bootPre[k].value

\* C2: a get_config_timestamp_from_db() call during which the persistence layer
\* raises nothing never returns less than the polling viewer received from the
\* successful call before it, whatever set, touch (register, delete, prune) and
\* bootstrap operations ran in between.
C2_LastChangedMonotonic ==
    (/\ last.op = "get_last_changed"
     /\ last.f = NoFault
     /\ last.result # NoneV
     /\ last.prevPolled # NoneV)
        => last.result.n >= last.prevPolled.n

\* C3: after an upload, delete or prune request during which the persistence layer
\* raised nothing and which added or removed at least one media row,
\* get_config_timestamp_from_db() returns a value strictly greater than it returned
\* before the request.
C3_CatalogMutationBumps ==
    (/\ last.op \in {"upload", "delete", "prune"}
     /\ last.clean
     /\ last.added + last.removed > 0)
        => LastChanged(Db).n > last.before.n

\* C4: when save_setting(K, V) returns True, the next get_setting(K), with or without
\* a fallback, returns V: for a key with or without a row before, with or without a
\* compiled-in default.
C4_SetThenGet ==
    (last.op = "set" /\ last.result = TRUE) =>
        \A fb \in {NoneV, Num(5), Str(3)} :
            get_setting(Db, importTs, last.key, fb, NoFault).result = last.value

\* C4 witness: a successful save of a key that had no row and has no default.
C4_Witness ==
    /\ last.op = "set"
    /\ last.result = TRUE
    /\ last.key \notin DefaultKeys
    /\ ~HasRow(last.pre.settings, last.key)
    /\ last.pre.schema

\* C5 (as claimed): every successful save_setting(K, V) leaves K with a last_updated
\* strictly greater than before the call, also when V equals the stored value.
C5_SetRefreshesLastUpdated ==
    (last.op = "set" /\ last.result = TRUE /\ HasRow(last.pre.settings, last.key)) =>
        /\ HasRow(settings, last.key)
        /\ settings[last.key].last_updated > last.pre.settings[last.key].last_updated

\* C6 (as claimed): load_settings_from_db() returns a map with every default key, in
\* which each key that has a row maps to the row's value and each default key without
\* a row maps to its default, for every store state, an unreadable one included.
C6_LoadAllOverlaysRows ==
    last.op = "load_all" =>
        /\ DefaultKeys \subseteq DOMAIN last.result
        /\ \A k \in DOMAIN settings : k \in DOMAIN last.result /\ last.result[k] = settings[k].value
        /\ \A k \in DefaultKeys \ DOMAIN settings : last.result[k] = Defaults[k]

\* The store could be read by the handler: its first statement succeeded, or the
\* bootstrap it ran succeeded and so did its one retry.
StoreRead ==
    /\ ~Operational(last.pre, last.f)
    /\ \/ last.pre.schema
       \/ (last.info.bootOk /\ last.f.again = 0 /\ ~last.f.down2)

\* C6 (amended): the map always has every default key; when the store is read (at
\* once, or on the retry after one bootstrap) it is the defaults overlaid with every
\* row; when the store cannot be read it is exactly the compiled-in defaults.
C6_LoadAllAmended ==
    last.op = "load_all" =>
        /\ DefaultKeys \subseteq DOMAIN last.result
        /\ StoreRead =>
              /\ DOMAIN last.result = DefaultKeys \cup DOMAIN settings
              /\ \A k \in DOMAIN settings : last.result[k] = settings[k].value
              /\ \A k \in DefaultKeys \ DOMAIN settings : last.result[k] = Defaults[k]
        /\ ~StoreRead => last.result = Defaults

\* C6 witness: a load from a readable store that holds a changed default key and a
\* key without a default.
C6_Witness ==
    /\ last.op = "load_all"
    /\ StoreRead
    /\ HasRow(settings, "max_resolution")
    /\ HasRow(settings, "slideshow_duration_seconds")
    /\ settings["slideshow_duration_seconds"].value = Num(30)

\* C7: on a store whose schema is missing, with persistence otherwise working,
\* get_setting(K) for a default key K runs one bootstrap and one retry and returns the
\* compiled-in default of K; afterwards the schema and every default row exist.
C7_GetOnFreshStore ==
    (last.op = "get" /\ ~last.pre.schema /\ last.key \in DefaultKeys /\ last.f = NoFault) =>
        /\ last.info.boots = 1
        /\ last.info.retries = 1
        /\ last.result = Defaults[last.key]
        /\ schema
        /\ \A k \in DefaultKeys : HasRow(settings, k) /\ settings[k].value = Defaults[k]

\* C8 (as claimed): every invocation of get, set, load_all and get_last_changed runs
\* at most one bootstrap and at most one retry.
C8_OneBootstrapOneRetry ==
    last.op \in {"get", "set", "load_all", "get_last_changed"} =>
        /\ last.info.boots <= 1
        /\ last.info.retries <= 1

SpecFallback(k, fb) ==
    IF fb # NoneV THEN fb ELSE IF k \in DefaultKeys THEN Defaults[k] ELSE NoneV

\* C10: get_setting(K, fallback) returns the stored value when a row for K is read; on
\* a non-schema failure, a failed bootstrap or a failed retry, and when K has no row,
\* it returns the fallback if one is given and otherwise the compiled-in default.
C10_GetFallsBack ==
    last.op = "get" =>
        LET rows == IF last.pre.schema THEN last.pre.settings ELSE settings
        IN  last.result = IF StoreRead /\ HasRow(rows, last.key)
                          THEN rows[last.key].value
                          ELSE SpecFallback(last.key, last.value)

\* C10 witness: a read that failed on a key whose row holds a non-default value
\* returned the caller's fallback.
C10_Witness ==
    /\ last.op = "get"
    /\ last.f.down1
    /\ last.key = "slideshow_duration_seconds"
    /\ HasRow(settings, last.key)
    /\ settings[last.key].value = Num(30)
    /\ last.value = Num(5)
    /\ last.result = Num(5)

\* The settings store could not be read at some query of the call: the first
\* statement raised, or the nested get_setting('media_last_changed', 0.0) did.
TimestampReadFailed ==
    \/ Operational(last.pre, last.f)
    \/ last.f.gsDown

\* C11: get_config_timestamp_from_db() returns None, and never a number, when the
\* settings store cannot be read during the call (at its own query or at the nested
\* read of media_last_changed).
C11_UnreadableGivesSentinel ==
    (last.op = "get_last_changed" /\ TimestampReadFailed) => last.result = NoneV

\* ---------------------------------------------------------------- catalog claims
\* No media row, no original and no thumbnail carries the content-id u.
NoRow(u) == \A r \in media : r.uuid_filename # u
NoFile(u) == \A n \in uploads \cup thumbs : n.stem # u
NoTrace(u) == NoRow(u) /\ NoFile(u)

\* The pass of upload_media's loop for files[i] is reached (no "break" before it)
\* and draws a content-id; the content-id it draws.
Drawn(files, i) ==
    /\ allowed_file(files[i].ext)
    /\ \A j \in 1..(i - 1) : ~(allowed_file(files[j].ext) /\ files[j].fate = "too_large")
Allocated(files, i, uuid0) ==
    uuid0 + Cardinality({j \in 1..(i - 1) : allowed_file(files[j].ext)})

\* C12: after a delete request during which nothing fails, no row is left for any id
\* it names, and for every row it removed (a row some upload registered) there is no
\* row, no original and no thumbnail with that row's content-id.
C12_RegisterThenDelete ==
    (last.op = "delete" /\ last.flt = NoMediaFault) =>
        /\ \A i \in DOMAIN last.ids :
              IsInt(last.ids[i]) => \A r \in media : r.id # ParseInt(last.ids[i])
        /\ \A r \in last.removed : NoTrace(r.uuid_filename)

\* C12 witness: a delete removed the row of the content-id allocated last, which
\* was registered with its original and its thumbnail.
C12_Witness ==
    /\ last.op = "delete"
    /\ last.flt = NoMediaFault
    /\ \E r \in last.removed : r.uuid_filename = nextUuid - 1 /\ r.media_type = "video"

C14_RowPairedWithFile ==
    last.op = "upload" =>
        \A i \in DOMAIN last.files :
            LET u == Allocated(last.files, i, last.uuid0)
            IN  /\ (Drawn(last.files, i) /\ last.files[i].fate = "save_fail") => NoRow(u)
                /\ (Drawn(last.files, i) /\ last.files[i].fate = "commit_fail") => NoFile(u)

\* C20: remove_missing_media_db_entries, when its commit does not fail, removes the
\* row of every id it processed without an exception, whatever happened to the
\* other ids, and returns as deleted count the number of rows it removed.
C20_PruneCommitsProcessed ==
    (last.op = "prune" /\ ~last.flt.commitFail) =>
        /\ \A i \in DOMAIN last.ids :
              (IsInt(last.ids[i]) /\ last.flt.getAt # i)
                  => \A r \in media : r.id # ParseInt(last.ids[i])
        /\ last.counts.done = Cardinality(last.removed)

\* C15: validate_web_playable returns true exactly when the file has a video stream
\* whose first one has an allowed video codec and an audio stream whose first one
\* has an allowed audio codec; an allowed video codec with a disallowed or absent
\* audio codec gives false.
C15_WebPlayableExactly ==
    last.op = "validate" =>
        LET s == last.streams
            FirstOf(type) == {i \in DOMAIN s : /\ s[i].type = type
                                               /\ \A j \in 1..(i - 1) : s[j].type # type}
            videoOk == \E i \in FirstOf("video") : s[i].codec \in ALLOWED_VIDEO_CODECS
            audioOk == \E i \in FirstOf("audio") : s[i].codec \in ALLOWED_AUDIO_CODECS
        IN  /\ last.result = (videoOk /\ audioOk)
            /\ (videoOk /\ ~audioOk) => last.result = FALSE

\* C15 witness: a file with an allowed video codec and a disallowed audio codec
\* was refused.
C15_Witness ==
    /\ last.op = "validate"
    /\ last.streams = <<Stream("video", "h264"), Stream("audio", "ac3")>>
    /\ last.result = FALSE

\* ---------------------------------------------------------------- reconciliation claims
Distinct(bucket) == \A i, j \in DOMAIN bucket : bucket[i] = bucket[j] => i = j

\* The entries of a managed folder with the folder's name.
Entries == ({"uploads"} \X uploads) \cup ({"thumbnails"} \X thumbs)

\* The extension is one the folder's scan recognizes: a media extension in the
\* uploads folder, the thumbnail extension in the thumbnails folder.
RecognizedExt(folder, e) ==
    IF folder = "uploads" THEN Lower(e.ext) \in ALLOWED_EXTENSIONS
    ELSE Lower(e.ext) = THUMBNAIL_EXT

\* C16: find_missing_media_files returns, once each, exactly the records whose
\* original file is not in the uploads folder, whether or not the thumbnail exists.
C16_FindMissingExact ==
    last.op = "reconcile" =>
        /\ \A i \in DOMAIN last.records :
              Listed(last.missing, last.records[i])
                  <=> (get_disk_filename(last.records[i]) \notin uploads)
        /\ \A j \in DOMAIN last.missing : Listed(last.records, last.missing[j])
        /\ Distinct(last.missing)

\* C16 witness: one record lost its original and kept its thumbnail and is
\* reported; another kept its original and lost its thumbnail and is not.
C16_Witness ==
    /\ last.op = "reconcile"
    /\ \E i, j \in DOMAIN last.records :
          /\ Listed(last.missing, last.records[i])
          /\ get_thumbnail_filename(last.records[i]) \in thumbs
          /\ ~Listed(last.missing, last.records[j])
          /\ get_thumbnail_filename(last.records[j]) \notin thumbs

\* C17: the three buckets of find_unexpected_items are pairwise disjoint and list no
\* item twice; a file named by a 32-hex token with an extension its folder
\* recognizes and a token that is not a known content-id is in the orphaned bucket
\* only; a file whose name is not such a token and is not an OS artifact is in the
\* unexpected-files bucket only.
C17_BucketsDisjoint ==
    last.op = "reconcile" =>
        LET b == last.found
            In(bucket, p) == Listed(bucket, Item(p[1], NameOf(p[2])))
        IN  /\ Distinct(b.orphaned_uuid_files)
            /\ Distinct(b.unexpected_files)
            /\ Distinct(b.unexpected_dirs)
            /\ \A i \in DOMAIN b.orphaned_uuid_files :
                  /\ ~Listed(b.unexpected_files, b.orphaned_uuid_files[i])
                  /\ ~Listed(b.unexpected_dirs, b.orphaned_uuid_files[i])
            /\ \A i \in DOMAIN b.unexpected_files :
                  ~Listed(b.unexpected_dirs, b.unexpected_files[i])
            /\ \A p \in Entries :
                  (/\ p[2].kind = "file"
                   /\ is_uuid_format(p[2].stem)
                   /\ RecognizedExt(p[1], p[2])
                   /\ p[2].stem \notin last.db_uuids) =>
                      /\ In(b.orphaned_uuid_files, p)
                      /\ ~In(b.unexpected_files, p)
                      /\ ~In(b.unexpected_dirs, p)
            /\ \A p \in Entries :
                  (/\ p[2].kind = "file"
                   /\ ~is_uuid_format(p[2].stem)
                   /\ ~IsOsArtifact(p[2])) =>
                      /\ In(b.unexpected_files, p)
                      /\ ~In(b.orphaned_uuid_files, p)
                      /\ ~In(b.unexpected_dirs, p)

\* C17 witness: a pass that found an orphaned file and an unexpected file in the
\* uploads folder while a registered record's files were in place.
C17_Witness ==
    /\ last.op = "reconcile"
    /\ Listed(last.found.orphaned_uuid_files,
              Item("uploads", NameOf(FileName(ForeignToken, "jpg"))))
    /\ Listed(last.found.unexpected_files, Item("uploads", NameOf(FileName(-3, "txt"))))
    /\ last.db_uuids # {}

\* C18: every regular file of a managed folder that is neither the original or the
\* thumbnail of a known record nor an OS artifact is in the orphaned bucket or in
\* the unexpected-files bucket, and every subdirectory is in the
\* unexpected-directories bucket.
C18_EveryFileClassified ==
    last.op = "reconcile" =>
        LET b == last.found
            In(bucket, p) == Listed(bucket, Item(p[1], NameOf(p[2])))
            OfRecord(p) ==
                \E i \in DOMAIN last.records :
                    \/ p[1] = "uploads" /\ p[2] = get_disk_filename(last.records[i])
                    \/ p[1] = "thumbnails" /\ p[2] = get_thumbnail_filename(last.records[i])
        IN  /\ \A p \in Entries :
                  (p[2].kind = "file" /\ ~OfRecord(p) /\ ~IsOsArtifact(p[2])) =>
                      (In(b.orphaned_uuid_files, p) \/ In(b.unexpected_files, p))
            /\ \A p \in Entries : p[2].kind = "dir" => In(b.unexpected_dirs, p)

\* ---------------------------------------------------------------- cleanup claims
\* An item that resolves outside its managed folder.
ResolvesOutside(item) == ~Under(ItemPath(item), FolderPath(item.folder))

\* C19: whatever items cleanup_unexpected_items is given, it deletes no file or
\* directory outside the managed folders, and every item that resolves outside
\* its folder is refused and counted in the errors.
C19_NothingOutsideDeleted ==
    last.op = "cleanup" =>
        /\ \A t \in last.deleted :
              Under(t.path, UPLOAD_FOLDER) \/ Under(t.path, THUMBNAIL_FOLDER)
        /\ \A i \in DOMAIN last.items :
              ResolvesOutside(last.items[i]) =>
                  \E j \in DOMAIN last.refused : last.refused[j] = last.items[i]
        /\ last.result[3] >=
              Cardinality({i \in DOMAIN last.items : ResolvesOutside(last.items[i])})

\* C37: whatever items cleanup_unexpected_items is given, an item with an empty
\* name or the name '.' included, the uploads directory and the thumbnails
\* directory still exist after the call.
C37_ManagedRootsSurvive ==
    last.op = "cleanup" =>
        path_isdir(Fs, UPLOAD_FOLDER) /\ path_isdir(Fs, THUMBNAIL_FOLDER)

\* ---------------------------------------------------------------- delete claims
\* C21: in a delete request a failure to remove files does not keep the row, and
\* every record counted in the reported deleted total has no row afterwards.
C21_DeleteCountsRemovedRows ==
    last.op = "delete" =>
        /\ (last.flt = [NoMediaFault EXCEPT !.rmFail = TRUE]) =>
              \A r \in media : \A i \in DOMAIN last.ids : last.ids[i] # ToString(r.id)
        /\ Cardinality(last.counted) <= last.counts.done
        /\ \A r \in last.counted : \A x \in media : x.id # r.id

\* ---------------------------------------------------------------- concurrency claims
\* Two set calls on one key that ran at the same time and have finished, w
\* first and x after it.
BothSaved(w, x) ==
    /\ w # x
    /\ calls[w].op = "save" /\ calls[w].pc = "done"
    /\ calls[x].op = "save" /\ calls[x].pc = "done"
    /\ calls[w].key = calls[x].key
    /\ w \in calls[x].after
    /\ w \in calls[x].during

\* The call whose write committed last: the later one that returned True.
CommittedLast(w, x) == IF calls[x].result THEN calls[x] ELSE calls[w]

\* C22: after two concurrent set(K, V) calls the store holds a row for K whose
\* value and last_updated are those of the write that committed last.
C22_ConcurrentSetLastWins ==
    \A w, x \in Workers :
        (BothSaved(w, x) /\ CommittedLast(w, x).result) =>
            /\ HasRow(settings, calls[x].key)
            /\ PyEq(settings[calls[x].key].value, CommittedLast(w, x).value)
            /\ settings[calls[x].key].last_updated = CommittedLast(w, x).stamp

\* ---------------------------------------------------------------- content-id claims
\* C23: no two rows share a content-id; a request's new rows take content-ids
\* the source had not given out before the request, while every row there is or
\* was removed holds one it had given out; and a content-id names at most one
\* original file.
C23_ContentIdsNeverShared ==
    /\ \A r1, r2 \in media : r1.uuid_filename = r2.uuid_filename => r1 = r2
    /\ \A r \in media : r.uuid_filename < nextUuid
    /\ last.op \in {"upload", "delete", "prune"} =>
          /\ \A r \in last.added : r.uuid_filename >= last.uuid0
          /\ \A r \in last.removed : r.uuid_filename < last.uuid0
    /\ \A e1, e2 \in uploads : e1.stem = e2.stem => e1 = e2

\* A record registered after the record with the first content-id lost its row.
C23_Witness ==
    /\ last.op = "upload"
    /\ \E r \in last.added : r.id = 1 /\ r.uuid_filename = 2
    /\ uploads = {FileName(2, "mp4")} /\ thumbs = {FileName(2, "png")}

\* ---------------------------------------------------------------- upload claims
\* The file passes every check of the loop: an allowed extension, and a playable
\* video or an image process_image accepts.
Acceptable(file) ==
    /\ allowed_file(file.ext)
    /\ get_media_type(file.ext) = "video" => is_web_friendly_video(file.content)
    /\ get_media_type(file.ext) = "image" => process_image(file.content) = "ok"

\* The row registered for files[i] of the last request, with its original kept.
Registered(i) ==
    \E r \in last.added :
        /\ r.uuid_filename = Allocated(last.files, i, last.uuid0)
        /\ get_disk_filename(r) \in uploads

\* C24: an accepted file whose thumbnail cannot be generated is registered with
\* its original and without a thumbnail; a video that is not web-playable is
\* rejected before a thumbnail is generated: none is left for its content-id.
C24_ThumbnailFailureNotFatal ==
    (last.op = "upload" /\ schema) =>
        \A i \in DOMAIN last.files :
            LET file == last.files[i]
                u == Allocated(last.files, i, last.uuid0)
            IN  /\ (/\ Drawn(last.files, i) /\ Acceptable(file)
                    /\ file.fate \in {"thumb_fail", "thumb_left"}) =>
                      /\ Registered(i)
                      /\ FileName(u, THUMBNAIL_EXT) \notin thumbs
                /\ (/\ Drawn(last.files, i)
                    /\ get_media_type(file.ext) = "video"
                    /\ ~is_web_friendly_video(file.content)) =>
                      /\ FileName(u, THUMBNAIL_EXT) \notin thumbs
                      /\ NoRow(u)

\* C24 witness: a batch with a rejected video and a video registered without its
\* thumbnail.
C24_Witness ==
    /\ last.op = "upload" /\ schema
    /\ last.files = <<Upload("mp4", "unplayable", "ok"), Upload("mp4", "playable", "thumb_fail")>>
    /\ Registered(2)
    /\ thumbs = {}

\* A file the loop rejects for its extension, its codecs or its size.
Rejected(file) ==
    \/ ~allowed_file(file.ext)
    \/ get_media_type(file.ext) = "video" /\ ~is_web_friendly_video(file.content)
    \/ file.fate = "too_large"

\* C26: in a batch, every acceptable file that comes after a rejected one is
\* registered with its original.
C26_BatchContinuesAfterRejection ==
    (last.op = "upload" /\ schema) =>
        \A i \in DOMAIN last.files :
            (/\ Acceptable(last.files[i]) /\ last.files[i].fate = "ok"
             /\ \E j \in 1..(i - 1) : Rejected(last.files[j])) =>
                Registered(i)

\* ---------------------------------------------------------------- name claims
\* The extensions a name can be said to have: what follows a dot that no other
\* dot follows, letter case folded.
FoldedExtensions(name) ==
    {Text(str_lower(SubSeq(name, i + 1, Len(name)))) :
        i \in {k \in DOMAIN name : /\ name[k] = "."
                                   /\ \A j \in DOMAIN name : j > k => name[j] # "."}}

\* C27: get_media_type answers "image" exactly for a name whose text after the
\* last dot is, letter case aside, an image extension, "video" exactly when it is
\* a video extension, and none for every other name, a name without a dot
\* included; a row registered for an upload stores the lower-cased extension of
\* the uploaded name and the media type get_media_type gives that name; for
\* "Beach Photo.JPG" these are "jpg" and "image".
C27_ClassifiedByExtension ==
    /\ last.op = "classify" =>
          /\ last.result \in {"image", "video", "none"}
          /\ last.result = "image" <=>
                FoldedExtensions(last.filename) \cap ALLOWED_IMAGE_EXTENSIONS # {}
          /\ last.result = "video" <=>
                FoldedExtensions(last.filename) \cap ALLOWED_VIDEO_EXTENSIONS # {}
          /\ last.filename = BeachPhoto => last.result = "image"
    /\ last.op = "upload_named" =>
          /\ \A r \in last.added :
                /\ FoldedExtensions(last.filename) = {r.extension}
                /\ r.media_type = get_media_type_of_name(last.filename)
                /\ FileName(r.uuid_filename, r.extension) \in last.stored
          /\ last.filename = BeachPhoto =>
                \A r \in last.added : r.extension = "jpg" /\ r.media_type = "image"

C27_Witness ==
    /\ last.op = "upload_named"
    /\ last.filename = BeachPhoto
    /\ \E r \in last.added : r.extension = "jpg" /\ r.media_type = "image"

\* ---------------------------------------------------------------- bootstrap claims
\* Two bootstraps that ran at the same time have both returned, x last.
BothBooted(w, x) ==
    /\ w # x
    /\ calls[w].op = "boot" /\ calls[w].pc = "done"
    /\ calls[x].op = "boot" /\ calls[x].pc = "done"
    /\ w \in calls[x].after
    /\ w \in calls[x].during

\* C28: a second bootstrap right after a first leaves the store as the first left
\* it, and when two bootstraps that ran at the same time have both returned,
\* every default key has its row and the deprecated key has none.
C28_BootstrapIdempotent ==
    /\ LET once == initialize_database(Db, importTs, "ok").db
           twice == initialize_database(once, importTs, "ok").db
       IN  /\ twice.schema = once.schema
           /\ twice.settings = once.settings
           /\ twice.media = once.media
    /\ \A w, x \in Workers :
          BothBooted(w, x) =>
              /\ schema
              /\ \A k \in DefaultKeys : HasRow(settings, k)
              /\ ~HasRow(settings, DeprecatedKey)

\* Both found no default rows, and the later commit met the rows of the earlier.
C28_Witness ==
    \E w, x \in Workers : BothBooted(w, x) /\ calls[x].conflict /\ calls[w].stamp > 0

\* C29: no step removes the row of a key other than 'widgets_weather_api_key';
\* that key's row is removed only by a bootstrap, which then returns; and when a
\* bootstrap returns True the key has no row.
C29_OnlyDeprecatedRowRemoved ==
    [][/\ \A k \in DOMAIN settings \ {DeprecatedKey} : HasRow(settings', k)
       /\ (HasRow(settings, DeprecatedKey) /\ ~HasRow(settings', DeprecatedKey)) =>
             \E w \in Workers : calls[w].op = "boot" /\ calls'[w].pc = "done"
       /\ \A w \in Workers :
             (/\ calls[w].op = "boot" /\ calls[w].pc # "done"
              /\ calls'[w].pc = "done" /\ calls'[w].result) =>
                 ~HasRow(settings', DeprecatedKey)]_vars

\* A bootstrap has deleted the deprecated key's row and returned; a key without
\* a default keeps the row a save gave it.
C29_Witness ==
    \E w \in Workers :
        /\ calls[w].op = "boot" /\ calls[w].pc = "done" /\ calls[w].pruned
        /\ ~HasRow(settings, DeprecatedKey)
        /\ HasRow(settings, "max_resolution")

\* ---------------------------------------------------------------- cleanup route claims
\* C30: a cleanup of unexpected items during which the catalog cannot be read
\* deletes no original and no thumbnail of a record that has a row.
C30_UnreadableCatalogDeletesNothing ==
    (last.op = "cleanup_route" /\ Operational(last.pre, last.f)) =>
        \A r \in media :
            /\ get_disk_filename(r) \in last.uploads0 => get_disk_filename(r) \in uploads
            /\ get_thumbnail_filename(r) \in last.thumbs0 =>
                  get_thumbnail_filename(r) \in thumbs

\* C32: when the cleanup route has read the content-ids of the catalog, no file
\* of either folder whose name token is one of them is among the items it
\* lists, and every original and every thumbnail of a record with a row that
\* was on disk before the request is on disk after it.
C32_KnownTokensNeverListed ==
    (last.op = "cleanup_route" /\ ~Operational(last.pre, last.f)) =>
        /\ last.db_uuids = {r.uuid_filename : r \in last.pre.media}
        /\ \A i \in DOMAIN last.items :
              \A e \in (IF last.items[i].folder = "uploads" THEN last.uploads0
                        ELSE last.thumbs0) :
                  (e.kind = "file" /\ e.stem \in last.db_uuids) =>
                      NameOf(e) # last.items[i].name
        /\ \A r \in media :
              /\ get_disk_filename(r) \in last.uploads0 => get_disk_filename(r) \in uploads
              /\ get_thumbnail_filename(r) \in last.thumbs0 =>
                    get_thumbnail_filename(r) \in thumbs

\* The cleanup deleted an orphan and a directory beside the files of a record.
C32_Witness ==
    /\ last.op = "cleanup_route" /\ ~Operational(last.pre, last.f)
    /\ Len(last.items) >= 2
    /\ \E r \in media : get_disk_filename(r) \in uploads /\ get_thumbnail_filename(r) \in thumbs
    /\ FileName(1, "jpg") \in uploads

\* C33: when generate_thumbnail for a video has returned (False, None) there is
\* no file at the destination path, and when ffprobe failed or reported a
\* duration that is not greater than 0, ffmpeg was not started.
C33_FailedVideoThumbnailLeavesNoFile ==
    \A w \in Workers :
        (calls[w].op = "thumbnail" /\ calls[w].pc = "done" /\ ~calls[w].result) =>
            /\ FileName(calls[w].dest, THUMBNAIL_EXT) \notin thumbs
            /\ calls[w].probe \in {"fail", "zero"} => ~calls[w].started

\* ---------------------------------------------------------------- prune claims
\* C34: a prune request removes only rows whose id is in the list it was given,
\* and none of a record whose original is in the upload folder.
C34_PruneOnlyMissing ==
    last.op = "prune" =>
        \A r \in last.removed :
            /\ \E i \in DOMAIN last.ids : last.ids[i] = ToString(r.id)
            /\ get_disk_filename(r) \notin uploads

\* ---------------------------------------------------------------- password claims
\* The initial password has been set: the flag is stored as true and the stored
\* hash is not one of the default password.
PasswordSet(s) ==
    /\ HasRow(s, "auth_password_changed")
    /\ PyEq(s["auth_password_changed"].value, Bool(TRUE))
    /\ HasRow(s, "auth_password_hash")
    /\ ~check_password_hash(s["auth_password_hash"].value, DefaultPassword)

\* C36: once the initial password has been set, no step, a start of the
\* application included, leaves the flag unset or the hash of the default
\* password in the store.
C36_PasswordStaysSet ==
    [][PasswordSet(settings) => PasswordSet(settings')]_vars

\* ---------------------------------------------------------------- upload and cleanup claims
\* C35: when a cleanup of unexpected items has run while an upload was between
\* saving its file and committing its row, no media row is committed whose
\* original the cleanup deleted.
C35_CleanupSparesInFlightUpload ==
    \A w \in Workers :
        (calls[w].op = "cleanup" /\ calls[w].pc = "done") =>
            \A r \in media : get_disk_filename(r) \notin calls[w].deleted

\* ---------------------------------------------------------------- overlay logo claims
\* C38: after a successful overlay-logo upload, get_last_changed() returns a
\* value strictly greater than it returned before the upload.
C38_LogoUploadBumpsLastChanged ==
    (last.op = "upload_overlay_logo" /\ last.saved /\ last.before # NoneV) =>
        /\ LastChanged(Db) # NoneV
        /\ LastChanged(Db).n > last.before.n

\* ---------------------------------------------------------------- video settings claims
\* The two properties the video playback settings are saved to have.
VideoSettingsValid(s) ==
    /\ HasRow(s, "slideshow_video_duration_limit_enabled")
    /\ HasRow(s, "slideshow_video_duration_limit_seconds")
    /\ HasRow(s, "slideshow_video_random_start_enabled")
    /\ s["slideshow_video_random_start_enabled"].value = Bool(TRUE) =>
            s["slideshow_video_duration_limit_enabled"].value = Bool(TRUE)
    /\ s["slideshow_video_duration_limit_seconds"].value.n \in 1..3600

\* C39: once a video-settings save has completed and no other is under way,
\* random start is enabled in the store only if the duration limit is, and the
\* stored limit is between 1 and 3600 seconds.
C39_VideoSettingsValidAfterSave ==
    (/\ \E w \in Workers : calls[w].op = "video_settings" /\ calls[w].pc = "done"
     /\ \A w \in Workers : calls[w].pc \in {"idle", "done"}) =>
        VideoSettingsValid(settings)

\* ---------------------------------------------------------------- reconciliation pass claims
\* C31: a step of find_missing_media_files or find_unexpected_items leaves every
\* settings row, every media row and every file and directory of the two managed
\* folders as it was.
C31_ReconciliationReadOnly ==
    [][last'.op \in {"find_missing", "find_unexpected"} =>
          /\ schema' = schema
          /\ settings' = settings
          /\ media' = media
          /\ Tree(Fs)' = Tree(Fs)]_vars

\* Both passes have something to report: a row without its original, and a
\* token-named file no row knows.
C31_Witness ==
    \/ /\ last.op = "find_missing" /\ last.missing # <<>> /\ uploads # {}
    \/ /\ last.op = "find_unexpected" /\ last.found.orphaned_uuid_files # <<>>
       /\ last.found.unexpected_files # <<>> /\ media # {}

\* ---------------------------------------------------------------- external tool claims
\* Worker w waits for an external tool.
Waiting(w) == calls[w].op = "thumbnail" /\ calls[w].pc \in {"probing", "extracting"}

\* C25: every invocation of an external tool returns to generate_thumbnail's
\* caller, also when the tool never exits, and an invocation that failed by the
\* tool's exit status leaves no destination file.
C25_ToolCallsReturn ==
    /\ \A w \in Workers : Waiting(w) ~> (calls[w].pc = "done")
    /\ [](\A w \in Workers :
            (/\ calls[w].op = "thumbnail" /\ calls[w].pc = "done" /\ ~calls[w].result
             /\ calls[w].extract # "error") =>
                FileName(calls[w].dest, THUMBNAIL_EXT) \notin thumbs)


====
